---- MODULE Spec2Model ----
(***************************************************************************)
(* A model of the worker fabric of the bug-reproduction pipeline:          *)
(*   - the message handlers of the Validate, Ingest, Signal and Map        *)
(*     workers and the rows they write (Spec),                             *)
(*   - the semaphore-bounded fan-out of runs and signals (SemSpec),        *)
(*   - the determinism controller's execution envelope (DetSpec),          *)
(*   - the temp files the handlers download (TmpSpec),                     *)
(*   - the delta minimizer (DdminSpec),                                    *)
(*   - one validation cycle: runs, metrics, minimization, save (CycSpec),  *)
(*   - the Ingest handlers appending frames to a report's description     *)
(*     (IngSpec for one handler, RaceSpec for several),                    *)
(*   - the clustering of error signatures (ClusterSpec) and their upsert   *)
(*     by concurrent Signal handlers (SigSpec),                            *)
(*   - the Synth handlers writing a Repro, its Steps and its artifacts,    *)
(*     and Validate reading them (SynSpec),                                *)
(*   - download_file under its retry decorator (DlSpec),                   *)
(*   - a message that the Map or Export handler fails on (PoisonSpec),     *)
(*   - the classification of HAR entries into steps (HarSpec),             *)
(*   - the split of a document into overlapping chunks (ChunkSpec),        *)
(*   - the temp paths the Signal worker downloads to (PathSpec).           *)
(* Each specification moves its own variables and leaves the others at     *)
(* their initial value.                                                    *)
(***************************************************************************)
EXTENDS Integers, Sequences, FiniteSets, TLC

VARIABLES
    \* --- message bus and relational store (Spec) ---
    msg,            \* the message on the subject: [worker, payload, runs, sigs]
    msgAcked,       \* the bus has received an ack for the message
    hs,             \* one record per delivery of the message to a handler
    runsRows,       \* runs table: iteration -> number of rows of the repro
    sigRows,        \* error_signatures table: hash -> frequencies of its rows
    reproStatus,    \* repros.status of the repro
    stabilityCache, \* the key stability:<repro_id> is set
    \* --- semaphore-bounded fan-out (SemSpec) ---
    semWorker,      \* "validate" (runs) or "ingest" (signals)
    semLimit,       \* max_concurrent_runs / max_concurrent_tasks
    semValue,       \* the semaphore's counter
    taskSt,         \* task -> "created" | "running" | "done"
    \* --- determinism controller (DetSpec) ---
    detCfg,         \* the enable_* toggles of test_config, and whether the
                    \* object freeze_time returns has an __aexit__ attribute
    detPc,          \* position inside execute_test_with_determinism
    container,      \* "none" | "created" | "running" | "removed"
    hasInfo,        \* 'container_info' in execution_result
    envState,       \* environment_state of deterministic_environment
    cleanupTasks,   \* environment_state['cleanup_tasks']
    netRules,       \* egress rules are installed on the interface
    niced,          \* the process's resource limits are applied
    monitor,        \* "none" | "running" | "cancelled"
    pendingExc,     \* "none" | "exception" | "cancelled": what is propagating
    detStatus,      \* execution_result['status']
    acquired,       \* resources in the order they were acquired
    released,       \* resources in the order they were released
    phases,         \* the states the execution went through
    netDelFailed,   \* tcdel itself raised
    ctrDelFailed,   \* stopping or removing the container itself raised
    \* --- temp files (TmpSpec) ---
    tmpWorker,      \* "signal" | "ingest" | "validate"
    tmpPc,          \* task -> position inside process_signal / the cycle
    tmpKind,        \* task -> the signal's kind
    tmpFiles,       \* the temp files and directories that exist: <<task, name>>
    tmpCreated,     \* the temp files and directories the handler created
    \* --- delta minimizer (DdminSpec) ---
    ddInput,        \* the step list the minimizer was called with
    ddPred,         \* the fail predicate of the test
    steps,          \* the local variable steps
    n,              \* the granularity n
    ddPc,           \* "start" | "loop" | "done" | "error"
    ddLast,         \* what the last loop iteration did
    ddEvals,        \* the calls of _test_steps_still_fail so far (up to MaxEvals)
    \* --- validation cycle (CycSpec) ---
    cycReq,         \* the request: runs (if present), determinism toggles,
                    \* and the configured flaky_threshold in hundredths
    cycPc,          \* "runs" | "metrics" | "minimize" | "save" | "done"
    runOutcome,     \* what happened in each run, in run_number order
    run_results,    \* the local list run_results
    stability_analysis,   \* the result of _calculate_stability_metrics
    minimization_results, \* "unset" | "None" | "minimal_already" | "completed"
    evalApplied,    \* the determinism layers applied by a minimization evaluation
    cycRows,        \* committed runs rows of the repro: iteration -> count
    cycRepro,       \* repros.status of the repro
    cycCache,       \* the key stability:<repro_id> is set
    cycFault,       \* what raised inside _save_validation_results
    \* --- ingest handlers on one report (IngSpec, RaceSpec) ---
    ingHandlers,    \* the handlers working on the report
    sigText,        \* signal -> length of the text its extractor yields
    ingPc,          \* handler -> "extract" | "read" | "done"
    ingResults,     \* handler -> signal -> "pending" | "failed" | "ok"
    ingOrder,       \* handler -> the signals in the order they finished
    ingRead,        \* handler -> the description it selected
    ingWritten,     \* handler -> the descriptions it committed
    description,    \* reports.description: the frames appended so far
    committed,      \* every committed value of the description, in order
    \* --- signature clustering (ClusterSpec) ---
    clInput,        \* the signatures passed to cluster_error_signatures
    clMode,         \* "labels" | "failed" | "no_model"
    clLabels,       \* cluster_labels of DBSCAN.fit_predict
    clOutput,       \* the list cluster_error_signatures returned
    clPc,           \* "call" | "done"
    \* --- concurrent signature upserts (SigSpec) ---
    sgTable,        \* error_signatures, committed: hash -> frequencies of its rows
    sgPend,         \* handler -> hash -> the rows its open transaction wrote
    sgCount,        \* handler -> number of signatures it has upserted
    sgPc,           \* handler -> "saving" | "committed" | "aborted"
    sgLast,         \* the last upsert that met an existing row: the incoming
                    \* frequency and what was added to the stored one
    \* --- Synth handlers on one report, and Validate after them (SynSpec) ---
    synReport,      \* report_id of the report.synth message
    synHar,         \* what the report's HAR holds: entries per kind, pages
    synAcked,       \* the bus has received an ack for the message
    synPc,          \* handler -> "idle" | "received" | "generated" | "processed" | "done"
    repros,         \* repros table: rows [id, report_id, status]
    stepsTable,     \* steps table: rows [repro_id, order_idx, kind]
    objectKeys,     \* object store: the keys [dir, file] under tests/generated/
    fetched,        \* repro id -> the artifacts Validate found for it
    \* --- object-store downloads (DlSpec) ---
    dlWorker,       \* the worker whose download_file is called
    dlS3,           \* attempt -> the object store would serve that attempt
    dlAttempts,     \* how often the body of download_file ran for the call
    dlResult,       \* what the call gave its caller: "path" | "None" | "raise"
    dlPc,           \* "idle" | "called" | "returned"
    dlLog,          \* the results of the calls that returned, in order
    \* --- a message whose handler fails (PoisonSpec) ---
    pmWorker,       \* the worker the subject belongs to: "map" | "export"
    pmCause,        \* why the handler fails on the message
    pmDeliveries,   \* how often the bus has handed the message to the handler
    pmNaks,         \* how often the handler has negatively acknowledged it
    pmPc,           \* "queued" | "handling" | "acked"
    \* --- the classification of HAR entries (HarSpec) ---
    harEntries,     \* the entries of the HAR: [method, mime, postData, json, apiUrl]
    harPages,       \* the number of pages of the HAR
    harInteractions,\* kind -> the number of interactions parse_har_for_interactions found
    harSteps,       \* the rows save_generated_test inserts into steps
    harPc,          \* "har" | "parsed" | "saved"
    \* --- the indexing split of the Map worker (ChunkSpec) ---
    mcContent,      \* the content string, as a sequence of characters
    mcSize,         \* settings.CHUNK_SIZE
    mcOverlap,      \* settings.CHUNK_OVERLAP
    mcStart,        \* the local variable start (0-based)
    mcChunks,       \* the local variable chunks
    mcPc,           \* "loop" | "done"
    \* --- the temp paths of the Signal worker's downloads (PathSpec) ---
    tpSignals,      \* the signals of the report: [key : [dir, name], kind]
    tpHash,         \* object key -> hash(s3_key) % 1000, fixed for the process
    tpPaths,        \* task -> the temp path it downloaded to
    tpFiles,        \* the temp files that exist
    tpDone          \* the tasks whose process_signal has returned

busVars == <<msg, msgAcked, hs, runsRows, sigRows, reproStatus, stabilityCache>>
semVars == <<semWorker, semLimit, semValue, taskSt>>
detVars == <<detCfg, detPc, container, hasInfo, envState, cleanupTasks, netRules,
             niced, monitor, pendingExc, detStatus, acquired, released, phases,
             netDelFailed, ctrDelFailed>>
tmpVars == <<tmpWorker, tmpPc, tmpKind, tmpFiles, tmpCreated>>
ddVars  == <<ddInput, ddPred, steps, n, ddPc, ddLast, ddEvals>>
cycVars == <<cycReq, cycPc, runOutcome, run_results, stability_analysis,
             minimization_results, evalApplied, cycRows, cycRepro, cycCache,
             cycFault>>
ingVars == <<ingHandlers, sigText, ingPc, ingResults, ingOrder, ingRead,
             ingWritten, description, committed>>
clVars  == <<clInput, clMode, clLabels, clOutput, clPc>>
sgVars  == <<sgTable, sgPend, sgCount, sgPc, sgLast>>
synVars == <<synReport, synHar, synAcked, synPc, repros, stepsTable, objectKeys,
             fetched>>
dlVars  == <<dlWorker, dlS3, dlAttempts, dlResult, dlPc, dlLog>>
pmVars  == <<pmWorker, pmCause, pmDeliveries, pmNaks, pmPc>>
harVars == <<harEntries, harPages, harInteractions, harSteps, harPc>>
mcVars  == <<mcContent, mcSize, mcOverlap, mcStart, mcChunks, mcPc>>
tpVars  == <<tpSignals, tpHash, tpPaths, tpFiles, tpDone>>
vars    == <<busVars, semVars, detVars, tmpVars, ddVars, cycVars, ingVars,
             clVars, sgVars, synVars, dlVars, pmVars, harVars, mcVars, tpVars>>

(***************************************************************************)
(* Bounds of the model.                                                    *)
(***************************************************************************)
\* deliveries of one message (the first delivery and its redeliveries)
MaxDeliveries == 2
\* the runs a repro.validate request asks for
MaxRuns == 2
\* clustered signatures of one report, and distinct signature hashes
MaxSigs == 2
\* the frequency of one clustered signature (the size of its cluster)
MaxFreq == 2
\* the runs or signals one handler fans out
MaxTasks == 4
\* the configured max_concurrent_runs / max_concurrent_tasks
MaxLimit == 3
\* the signals of one report
MaxSignals == 2
\* the length of the step list handed to the delta minimizer
MaxSteps == 4
\* the distinct steps a step list is made of
MaxStepId == 4
\* the test evaluations of one minimization that are counted
MaxEvals == 9
\* the largest number of runs a repro.validate request asks for
MaxCycleRuns == 5
\* the signatures extracted from one report's signals
MaxInput == 3
\* the largest cluster label DBSCAN assigns (labels are -1, 0, 1, ...)
MaxLabel == 1
\* the HAR entries of one kind (and the pages) of a report
MaxPerKind == 1
\* the report ids a report.synth message can carry
MaxReportId == 2
\* the calls of download_file one worker makes
MaxDownloads == 2
\* @retry(stop=stop_after_attempt(3), ...)
stop_after_attempt == 3
\* the deliveries of one message that are followed
MaxPoisonDeliveries == 7
\* the entries of one HAR
MaxEntries == 2
\* the largest CHUNK_SIZE a configuration sets
MaxChunkSize == 7
\* the length of a content string
MaxContent == 8
\* the chunks of one split that are followed
MaxChunks == 9
\* the directories (prefixes) an object key can have
MaxDirs == 2
\* the values of hash(s3_key) % 1000 that are told apart: 0..MaxHash
MaxHash == 1

Range(s) == {s[i] : i \in DOMAIN s}

(***************************************************************************)
(* Idle values: what a specification that does not move a subsystem        *)
(* leaves it at.                                                           *)
(***************************************************************************)
NoHandler == [pc |-> "idle", result |-> "none", ack |-> "none"]

BusIdle ==
    /\ msg = [worker |-> "map", payload |-> "valid", runs |-> 0, sigs |-> <<>>]
    /\ msgAcked = FALSE
    /\ hs = [h \in 1..MaxDeliveries |-> NoHandler]
    /\ runsRows = [i \in 1..MaxRuns |-> 0]
    /\ sigRows = [k \in 1..MaxSigs |-> <<>>]
    /\ reproStatus = "created"
    /\ stabilityCache = FALSE

SemIdle ==
    /\ semWorker = "validate"
    /\ semLimit = 1
    /\ semValue = 1
    /\ taskSt = <<>>

DetIdle ==
    /\ detCfg = [net |-> FALSE, time |-> FALSE, res |-> FALSE, aexit |-> FALSE]
    /\ detPc = "idle"
    /\ container = "none"
    /\ hasInfo = FALSE
    /\ envState = [network_shaping |-> FALSE, time_freezing |-> FALSE,
                   resource_limits |-> FALSE]
    /\ cleanupTasks = <<>>
    /\ netRules = FALSE
    /\ niced = FALSE
    /\ monitor = "none"
    /\ pendingExc = "none"
    /\ detStatus = "running"
    /\ acquired = <<>>
    /\ released = <<>>
    /\ phases = <<"idle">>
    /\ netDelFailed = FALSE
    /\ ctrDelFailed = FALSE

TmpIdle ==
    /\ tmpWorker = "signal"
    /\ tmpPc = <<>>
    /\ tmpKind = <<>>
    /\ tmpFiles = {}
    /\ tmpCreated = {}

DdIdle ==
    /\ ddInput = <<>>
    /\ ddPred = [kind |-> "never", req |-> {}]
    /\ steps = <<>>
    /\ n = 2
    /\ ddPc = "done"
    /\ ddLast = "none"
    /\ ddEvals = 0

CycIdle ==
    /\ cycReq = [hasRuns |-> FALSE, runs |-> 0, thr |-> 0, det |-> {}]
    /\ cycPc = "done"
    /\ runOutcome = <<>>
    /\ run_results = <<>>
    /\ stability_analysis = [set |-> FALSE]
    /\ minimization_results = "unset"
    /\ evalApplied = {}
    /\ cycRows = <<>>
    /\ cycRepro = "pending"
    /\ cycCache = FALSE
    /\ cycFault = "none"

IngIdle ==
    /\ ingHandlers = {}
    /\ sigText = <<>>
    /\ ingPc = <<>>
    /\ ingResults = <<>>
    /\ ingOrder = <<>>
    /\ ingRead = <<>>
    /\ ingWritten = <<>>
    /\ description = <<>>
    /\ committed = <<>>

ClIdle ==
    /\ clInput = <<>>
    /\ clMode = "no_model"
    /\ clLabels = <<>>
    /\ clOutput = <<>>
    /\ clPc = "done"

SgIdle ==
    /\ sgTable = <<>>
    /\ sgPend = <<>>
    /\ sgCount = <<>>
    /\ sgPc = <<>>
    /\ sgLast = [conflict |-> FALSE, incoming |-> 0, added |-> 0]

SynIdle ==
    /\ synReport = 0
    /\ synHar = [navigation |-> 0, form_submissions |-> 0, api_calls |-> 0,
                 page_loads |-> 0]
    /\ synAcked = FALSE
    /\ synPc = <<>>
    /\ repros = <<>>
    /\ stepsTable = <<>>
    /\ objectKeys = {}
    /\ fetched = <<>>

DlIdle ==
    /\ dlWorker = "ingest"
    /\ dlS3 = [k \in 1..stop_after_attempt |-> TRUE]
    /\ dlAttempts = 0
    /\ dlResult = "none"
    /\ dlPc = "idle"
    /\ dlLog = <<>>

PmIdle ==
    /\ pmWorker = "map"
    /\ pmCause = "bad_json"
    /\ pmDeliveries = 0
    /\ pmNaks = 0
    /\ pmPc = "acked"

HarIdle ==
    /\ harEntries = <<>>
    /\ harPages = 0
    /\ harInteractions = [navigation |-> 0, form_submissions |-> 0, api_calls |-> 0,
                          page_loads |-> 0]
    /\ harSteps = <<>>
    /\ harPc = "saved"

McIdle ==
    /\ mcContent = <<>>
    /\ mcSize = 1
    /\ mcOverlap = 0
    /\ mcStart = 0
    /\ mcChunks = <<>>
    /\ mcPc = "done"

TpIdle ==
    /\ tpSignals = <<>>
    /\ tpHash = <<>>
    /\ tpPaths = <<>>
    /\ tpFiles = {}
    /\ tpDone = {}

(***************************************************************************)
(* The message handlers (Spec).                                            *)
(***************************************************************************)
Workers == {"validate", "ingest", "signal", "map"}
Payloads == {"valid", "bad_json", "missing_field"}

\* The clustered signatures a report's logs give: [hash, frequency] each.
SigLists ==
    UNION {[1..len -> [hash : 1..MaxSigs, frequency : 1..MaxFreq]] : len \in 1..MaxSigs}

Init ==
    /\ \E w \in Workers, p \in Payloads :
         \/ /\ w = "validate"
            /\ \E r \in 1..MaxRuns :
                 msg = [worker |-> w, payload |-> p, runs |-> r, sigs |-> <<>>]
         \/ /\ w = "signal"
            /\ \E s \in SigLists :
                 msg = [worker |-> w, payload |-> p, runs |-> 0, sigs |-> s]
         \/ /\ w \in {"ingest", "map"}
            /\ msg = [worker |-> w, payload |-> p, runs |-> 0, sigs |-> <<>>]
    /\ msgAcked = FALSE
    /\ hs = [h \in 1..MaxDeliveries |-> NoHandler]
    /\ runsRows = [i \in 1..MaxRuns |-> 0]
    /\ sigRows = [k \in 1..MaxSigs |-> <<>>]
    /\ reproStatus = "created"
    /\ stabilityCache = FALSE
    /\ SemIdle /\ DetIdle /\ TmpIdle /\ DdIdle /\ CycIdle /\ IngIdle
    /\ ClIdle /\ SgIdle /\ SynIdle /\ DlIdle /\ PmIdle /\ HarIdle
    /\ McIdle /\ TpIdle

\* The bus hands the message to a handler: the first time, or again while no
\* ack has reached it (at-least-once: also while an earlier handler still runs).
Deliver(h) ==
    /\ hs[h].pc = "idle"
    /\ \A g \in 1..(h - 1) : hs[g].pc # "idle"
    /\ ~msgAcked
    /\ hs' = [hs EXCEPT ![h].pc = "received"]
    /\ UNCHANGED <<msg, msgAcked, runsRows, sigRows, reproStatus, stabilityCache>>

\* message_handler up to the call of the processing routine (Validate, Ingest,
\* Signal), and handle_mapping_request up to its processing (Map): the payload
\* is decoded and its required field read.
Decode(h) ==
    /\ hs[h].pc = "received"
    /\ hs' = [hs EXCEPT ![h] =
                IF msg.payload = "valid"
                THEN [@ EXCEPT !.pc = "processing"]
                ELSE IF msg.worker = "map"
                     THEN [@ EXCEPT !.pc = "done", !.ack = "nak"]
                     ELSE [@ EXCEPT !.pc = "done"]]
    /\ UNCHANGED <<msg, msgAcked, runsRows, sigRows, reproStatus, stabilityCache>>

\* INSERT INTO runs, once per run result of the cycle.
InsertRuns(rows, N) ==
    [i \in DOMAIN rows |-> IF i <= N THEN rows[i] + 1 ELSE rows[i]]

\* INSERT ... ON CONFLICT (signature_hash) DO UPDATE SET frequency = frequency + 1
UpsertSignature_PlainInsert(rows, sig) ==
    [rows EXCEPT ![sig.hash] = Append(@, sig.frequency)]
UpsertSignature(rows, sig) ==
    IF rows[sig.hash] = <<>>
    THEN [rows EXCEPT ![sig.hash] = <<sig.frequency>>]
    ELSE [rows EXCEPT ![sig.hash] = [j \in DOMAIN @ |-> @[j] + 1]]

RECURSIVE UpsertAll(_, _)
UpsertAll(rows, sigs) ==
    IF sigs = <<>> THEN rows
    ELSE UpsertAll(UpsertSignature(rows, Head(sigs)), Tail(sigs))

\* What one call of the processing routine can come to.
ProcessOutcomes(w) ==
    CASE w = "validate" -> {"raised", "committed", "insert_failed", "commit_failed"}
      [] w = "signal"   -> {"raised", "committed", "insert_failed"}
      [] w = "ingest"   -> {"raised", "committed", "insert_failed"}
      [] w = "map"      -> {"raised", "committed"}

\* _save_validation_results: the UPDATE of the repro, the INSERTs of the runs,
\* the cache entry, then the commit; an exception is logged and swallowed.
_save_validation_results(o) ==
    /\ runsRows' = IF o = "committed" THEN InsertRuns(runsRows, msg.runs) ELSE runsRows
    /\ reproStatus' = IF o = "committed" THEN "validated" ELSE reproStatus
    /\ stabilityCache' = IF o \in {"committed", "commit_failed"} THEN TRUE
                         ELSE stabilityCache
    /\ UNCHANGED sigRows

\* save_clustered_signatures: one upsert per clustered signature, then the
\* commit; an exception is logged and swallowed.
save_clustered_signatures(o) ==
    /\ sigRows' = IF o = "committed" THEN UpsertAll(sigRows, msg.sigs) ELSE sigRows
    /\ UNCHANGED <<runsRows, reproStatus, stabilityCache>>

\* The processing routine: process_validation_request, process_signals_request,
\* process_ingestion_request, and the body of handle_mapping_request.
Process(h) ==
    /\ hs[h].pc = "processing"
    /\ \E o \in ProcessOutcomes(msg.worker) :
         /\ hs' = [hs EXCEPT ![h].pc = "processed",
                             ![h].result = IF o = "committed" THEN "ok" ELSE "failed"]
         /\ IF msg.worker = "validate" THEN _save_validation_results(o)
            ELSE IF msg.worker = "signal" THEN save_clustered_signatures(o)
            ELSE UNCHANGED <<runsRows, sigRows, reproStatus, stabilityCache>>
    /\ UNCHANGED <<msg, msgAcked>>

\* The acknowledgement the handler sends once the processing routine is back:
\* Validate, Ingest and Signal ack after the call, whatever it logged; Map acks
\* at the end of its try block and naks in its except block.
AckAfter(w, result) ==
    IF w = "map" THEN (IF result = "ok" THEN "ack" ELSE "nak") ELSE "ack"

Finish(h) ==
    /\ hs[h].pc = "processed"
    /\ hs' = [hs EXCEPT ![h].pc = "done", ![h].ack = AckAfter(msg.worker, hs[h].result)]
    /\ msgAcked' = (msgAcked \/ AckAfter(msg.worker, hs[h].result) = "ack")
    /\ UNCHANGED <<msg, runsRows, sigRows, reproStatus, stabilityCache>>

Next ==
    \E h \in 1..MaxDeliveries :
        \/ Deliver(h) /\ UNCHANGED <<semVars, detVars, tmpVars, ddVars, cycVars, ingVars, clVars, sgVars, synVars, dlVars, pmVars, harVars, mcVars, tpVars>>
        \/ Decode(h) /\ UNCHANGED <<semVars, detVars, tmpVars, ddVars, cycVars, ingVars, clVars, sgVars, synVars, dlVars, pmVars, harVars, mcVars, tpVars>>
        \/ Process(h) /\ UNCHANGED <<semVars, detVars, tmpVars, ddVars, cycVars, ingVars, clVars, sgVars, synVars, dlVars, pmVars, harVars, mcVars, tpVars>>
        \/ Finish(h) /\ UNCHANGED <<semVars, detVars, tmpVars, ddVars, cycVars, ingVars, clVars, sgVars, synVars, dlVars, pmVars, harVars, mcVars, tpVars>>

Spec == Init /\ [][Next]_vars

\* C1: in every worker, a delivery is acknowledged only if its processing
\* completed successfully, and a delivery whose processing failed (an exception
\* or a failed store write) is negatively acknowledged and not acknowledged.
C1_AckOnlyAfterSuccess ==
    \A h \in 1..MaxDeliveries :
        /\ hs[h].ack = "ack" => hs[h].result = "ok"
        /\ (hs[h].pc = "done" /\ hs[h].result = "failed") => hs[h].ack = "nak"

\* C2: however often the message is delivered, the runs table holds at most one
\* row per (repro_id, iteration) and error_signatures at most one row per
\* signature_hash.
C2_NoDuplicateRows ==
    /\ \A i \in DOMAIN runsRows : runsRows[i] <= 1
    /\ \A k \in DOMAIN sigRows : Len(sigRows[k]) <= 1

(***************************************************************************)
(* The semaphore-bounded fan-out of run_validation_cycle (runs) and of      *)
(* process_ingestion_request (signals) (SemSpec).                           *)
(***************************************************************************)
SemInit ==
    /\ semWorker \in {"validate", "ingest"}
    /\ semLimit \in 1..MaxLimit
    /\ semValue = semLimit
    /\ \E k \in 0..MaxTasks :
         /\ semWorker = "ingest" => k >= 1
         /\ taskSt = [i \in 1..k |-> "created"]
    /\ BusIdle /\ DetIdle /\ TmpIdle /\ DdIdle /\ CycIdle /\ IngIdle
    /\ ClIdle /\ SgIdle /\ SynIdle /\ DlIdle /\ PmIdle /\ HarIdle
    /\ McIdle /\ TpIdle

Running == {i \in DOMAIN taskSt : taskSt[i] = "running"}

\* asyncio.Semaphore.acquire returns at once only while the counter is positive.
SemCanEnter_NoLimit(v) == TRUE
SemCanEnter(v) == v > 0

\* execute_run(i): `async with semaphore:` entered, _execute_single_run started.
execute_run(i) ==
    /\ semWorker = "validate"
    /\ i \in DOMAIN taskSt
    /\ taskSt[i] = "created"
    /\ SemCanEnter(semValue)
    /\ semValue' = semValue - 1
    /\ taskSt' = [taskSt EXCEPT ![i] = "running"]
    /\ UNCHANGED <<semWorker, semLimit>>

\* process_with_limit(signal): `async with semaphore:` entered, process_signal
\* started.
process_with_limit(i) ==
    /\ semWorker = "ingest"
    /\ i \in DOMAIN taskSt
    /\ taskSt[i] = "created"
    /\ SemCanEnter(semValue)
    /\ semValue' = semValue - 1
    /\ taskSt' = [taskSt EXCEPT ![i] = "running"]
    /\ UNCHANGED <<semWorker, semLimit>>

\* The run or the signal is done (returned or raised): the `async with` block
\* is left and the semaphore released.
SemRelease(i) ==
    /\ i \in DOMAIN taskSt
    /\ taskSt[i] = "running"
    /\ semValue' = semValue + 1
    /\ taskSt' = [taskSt EXCEPT ![i] = "done"]
    /\ UNCHANGED <<semWorker, semLimit>>

SemNext ==
    \E i \in 1..MaxTasks :
        \/ execute_run(i) /\ UNCHANGED <<busVars, detVars, tmpVars, ddVars, cycVars, ingVars, clVars, sgVars, synVars, dlVars, pmVars, harVars, mcVars, tpVars>>
        \/ process_with_limit(i) /\ UNCHANGED <<busVars, detVars, tmpVars, ddVars, cycVars, ingVars, clVars, sgVars, synVars, dlVars, pmVars, harVars, mcVars, tpVars>>
        \/ SemRelease(i) /\ UNCHANGED <<busVars, detVars, tmpVars, ddVars, cycVars, ingVars, clVars, sgVars, synVars, dlVars, pmVars, harVars, mcVars, tpVars>>

SemSpec == SemInit /\ [][SemNext]_vars

\* C3: at every moment the runs of a validation cycle executing at once are at
\* most max_concurrent_runs, and the signals of an Ingest handler processed at
\* once are at most max_concurrent_tasks, whatever number was requested.
C3_BoundedConcurrency == Cardinality(Running) <= semLimit

\* More tasks than the limit, the limit reached, and a task held back.
C3_Witness ==
    /\ Len(taskSt) > semLimit
    /\ Cardinality(Running) = semLimit
    /\ \E i \in DOMAIN taskSt : taskSt[i] = "created"
    /\ \E i \in DOMAIN taskSt : taskSt[i] = "done"

(***************************************************************************)
(* The determinism controller: execute_test_with_determinism (DetSpec).     *)
(***************************************************************************)
DetInit ==
    /\ detCfg \in [net : BOOLEAN, time : BOOLEAN, res : BOOLEAN, aexit : BOOLEAN]
    /\ detPc = "idle"
    /\ container = "none"
    /\ hasInfo = FALSE
    /\ envState = [network_shaping |-> FALSE, time_freezing |-> FALSE,
                   resource_limits |-> FALSE]
    /\ cleanupTasks = <<>>
    /\ netRules = FALSE
    /\ niced = FALSE
    /\ monitor = "none"
    /\ pendingExc = "none"
    /\ detStatus = "running"
    /\ acquired = <<>>
    /\ released = <<>>
    /\ phases = <<"idle">>
    /\ netDelFailed = FALSE
    /\ ctrDelFailed = FALSE
    /\ BusIdle /\ SemIdle /\ TmpIdle /\ DdIdle /\ CycIdle /\ IngIdle
    /\ ClIdle /\ SgIdle /\ SynIdle /\ DlIdle /\ PmIdle /\ HarIdle
    /\ McIdle /\ TpIdle

\* create_isolated_container: docker containers.create(**container_config).
DetCreate ==
    /\ detPc = "idle"
    /\ \E ok \in BOOLEAN :
         IF ok
         THEN /\ container' = "created"
              /\ acquired' = Append(acquired, "container")
              /\ phases' = Append(phases, "container_created")
              /\ detPc' = "start"
              /\ UNCHANGED pendingExc
         ELSE /\ pendingExc' = "exception"
              /\ detPc' = "except"
              /\ UNCHANGED <<container, acquired, phases>>
    /\ UNCHANGED <<detCfg, hasInfo, envState, cleanupTasks, netRules, niced, monitor,
                   detStatus, released, netDelFailed, ctrDelFailed>>

\* create_isolated_container: container.start().
DetStart ==
    /\ detPc = "start"
    /\ \E ok \in BOOLEAN :
         IF ok
         THEN /\ container' = "running"
              /\ detPc' = "wait"
              /\ UNCHANGED pendingExc
         ELSE /\ pendingExc' = "exception"
              /\ detPc' = "except"
              /\ UNCHANGED container
    /\ UNCHANGED <<detCfg, hasInfo, envState, cleanupTasks, netRules, niced, monitor,
                   detStatus, acquired, released, phases, netDelFailed, ctrDelFailed>>

\* _wait_for_container_ready: the echo probe answers, or 30 s pass and
\* TimeoutError is raised; on return container_info is stored in
\* execution_result.
DetWaitReady ==
    /\ detPc = "wait"
    /\ \E ready \in BOOLEAN :
         IF ready
         THEN /\ hasInfo' = TRUE
              /\ phases' = Append(phases, "ready")
              /\ detPc' = "env_net"
              /\ UNCHANGED pendingExc
         ELSE /\ pendingExc' = "exception"
              /\ detPc' = "except"
              /\ UNCHANGED <<hasInfo, phases>>
    /\ UNCHANGED <<detCfg, container, envState, cleanupTasks, netRules, niced, monitor,
                   detStatus, acquired, released, netDelFailed, ctrDelFailed>>

\* deterministic_environment, first layer: _apply_network_shaping (tcset).
EnvNet ==
    /\ detPc = "env_net"
    /\ phases' = Append(phases, "apply_envelope")
    /\ IF detCfg.net
       THEN \E ok \in BOOLEAN :
              IF ok
              THEN /\ netRules' = TRUE
                   /\ envState' = [envState EXCEPT !.network_shaping = TRUE]
                   /\ acquired' = Append(acquired, "network")
                   /\ detPc' = "env_time"
                   /\ UNCHANGED pendingExc
              ELSE /\ pendingExc' = "exception"
                   /\ detPc' = "env_cleanup"
                   /\ UNCHANGED <<netRules, envState, acquired>>
       ELSE /\ detPc' = "env_time"
            /\ UNCHANGED <<netRules, envState, acquired, pendingExc>>
    /\ UNCHANGED <<detCfg, container, hasInfo, cleanupTasks, niced, monitor,
                   detStatus, released, netDelFailed, ctrDelFailed>>

\* deterministic_environment, second layer: _setup_time_freezing returns the
\* freeze_time object (not started), the flag is set, and the object's
\* __aexit__ is appended to cleanup_tasks (AttributeError if it has none).
EnvTime ==
    /\ detPc = "env_time"
    /\ IF detCfg.time
       THEN /\ envState' = [envState EXCEPT !.time_freezing = TRUE]
            /\ IF detCfg.aexit
               THEN /\ cleanupTasks' = Append(cleanupTasks, "time_exit")
                    /\ detPc' = "env_res"
                    /\ UNCHANGED pendingExc
               ELSE /\ pendingExc' = "exception"
                    /\ detPc' = "env_cleanup"
                    /\ UNCHANGED cleanupTasks
       ELSE /\ detPc' = "env_res"
            /\ UNCHANGED <<envState, cleanupTasks, pendingExc>>
    /\ UNCHANGED <<detCfg, container, hasInfo, netRules, niced, monitor, detStatus,
                   acquired, released, phases, netDelFailed, ctrDelFailed>>

\* deterministic_environment, third layer: _apply_resource_limits (its setters
\* log their own failures), then the monitor task is created and its cancel
\* appended to cleanup_tasks.
EnvResAndMonitor ==
    /\ detPc = "env_res"
    /\ IF detCfg.res
       THEN /\ niced' = TRUE
            /\ envState' = [envState EXCEPT !.resource_limits = TRUE]
            /\ acquired' = acquired \o <<"resources", "monitor">>
       ELSE /\ acquired' = Append(acquired, "monitor")
            /\ UNCHANGED <<niced, envState>>
    /\ monitor' = "running"
    /\ cleanupTasks' = Append(cleanupTasks, "monitor_cancel")
    /\ detPc' = "body"
    /\ UNCHANGED <<detCfg, container, hasInfo, netRules, pendingExc, detStatus,
                   released, phases, netDelFailed, ctrDelFailed>>

\* The body of the `async with`: _execute_test_in_container, which turns every
\* Exception into a failed test_result, then status = 'completed'; or the task
\* is cancelled while it awaits.
DetBody ==
    /\ detPc = "body"
    /\ \E o \in {"returned", "cancelled"} :
         IF o = "returned"
         THEN /\ detStatus' = "completed"
              /\ phases' = phases \o <<"executing", "completed">>
              /\ UNCHANGED pendingExc
         ELSE /\ pendingExc' = "cancelled"
              /\ phases' = Append(phases, "executing")
              /\ UNCHANGED detStatus
    /\ detPc' = "env_cleanup"
    /\ UNCHANGED <<detCfg, container, hasInfo, envState, cleanupTasks, netRules, niced,
                   monitor, acquired, released, netDelFailed, ctrDelFailed>>

\* The cleanup tasks the loop of _cleanup_environment gets through: calling the
\* registered __aexit__ without its three arguments raises, which ends the
\* whole try block.
RECURSIVE TasksRun(_)
TasksRun(tasks) ==
    IF tasks = <<>> \/ Head(tasks) = "time_exit" THEN <<>>
    ELSE <<Head(tasks)>> \o TasksRun(Tail(tasks))

\* The order in which _cleanup_environment releases: the cleanup tasks, then the
\* network rules, then the resource limits.
ReleaseOrder(mon, net, res) == mon \o net \o res

\* _cleanup_environment, run by the finally of deterministic_environment.
EnvCleanup ==
    /\ detPc = "env_cleanup"
    /\ LET ran == TasksRun(cleanupTasks)
           raised == Len(ran) < Len(cleanupTasks)
           cancelMon == "monitor_cancel" \in Range(ran)
           doNet == ~raised /\ envState.network_shaping
           doRes == ~raised /\ envState.resource_limits
       IN  \E delOk \in BOOLEAN :
             /\ doNet \/ delOk
             /\ monitor' = IF cancelMon THEN "cancelled" ELSE monitor
             /\ netRules' = IF doNet /\ delOk THEN FALSE ELSE netRules
             /\ netDelFailed' = (doNet /\ ~delOk)
             /\ niced' = IF doRes THEN FALSE ELSE niced
             /\ released' = released \o
                   ReleaseOrder(IF cancelMon THEN <<"monitor">> ELSE <<>>,
                                IF doNet /\ delOk THEN <<"network">> ELSE <<>>,
                                IF doRes THEN <<"resources">> ELSE <<>>)
    /\ phases' = Append(phases, "cleanup")
    /\ detPc' = IF pendingExc = "exception" THEN "except" ELSE "finally"
    /\ UNCHANGED <<detCfg, container, hasInfo, envState, cleanupTasks, pendingExc,
                   detStatus, acquired, ctrDelFailed>>

\* except Exception: status = 'failed'.
DetExcept ==
    /\ detPc = "except"
    /\ detStatus' = "failed"
    /\ phases' = Append(phases, "failed")
    /\ pendingExc' = "none"
    /\ detPc' = "finally"
    /\ UNCHANGED <<detCfg, container, hasInfo, envState, cleanupTasks, netRules, niced,
                   monitor, acquired, released, netDelFailed, ctrDelFailed>>

\* Whether the finally block calls _cleanup_container.
CleansContainer(info, ctr) == info

\* finally: _cleanup_container (stop, remove) if container_info was stored; then
\* the call returns, or the cancellation goes on to the caller.
DetFinally ==
    /\ detPc = "finally"
    /\ IF CleansContainer(hasInfo, container)
       THEN /\ \E ok \in BOOLEAN :
                 IF ok
                 THEN /\ container' = "removed"
                      /\ released' = Append(released, "container")
                      /\ UNCHANGED ctrDelFailed
                 ELSE /\ ctrDelFailed' = TRUE
                      /\ UNCHANGED <<container, released>>
            /\ phases' = phases \o <<"cleanup", "idle">>
       ELSE /\ phases' = Append(phases, "idle")
            /\ UNCHANGED <<container, released, ctrDelFailed>>
    /\ detPc' = IF pendingExc = "cancelled" THEN "propagated" ELSE "returned"
    /\ UNCHANGED <<detCfg, hasInfo, envState, cleanupTasks, netRules, niced, monitor,
                   pendingExc, detStatus, acquired, netDelFailed>>

DetNext ==
    \/ DetCreate /\ UNCHANGED <<busVars, semVars, tmpVars, ddVars, cycVars, ingVars, clVars, sgVars, synVars, dlVars, pmVars, harVars, mcVars, tpVars>>
    \/ DetStart /\ UNCHANGED <<busVars, semVars, tmpVars, ddVars, cycVars, ingVars, clVars, sgVars, synVars, dlVars, pmVars, harVars, mcVars, tpVars>>
    \/ DetWaitReady /\ UNCHANGED <<busVars, semVars, tmpVars, ddVars, cycVars, ingVars, clVars, sgVars, synVars, dlVars, pmVars, harVars, mcVars, tpVars>>
    \/ EnvNet /\ UNCHANGED <<busVars, semVars, tmpVars, ddVars, cycVars, ingVars, clVars, sgVars, synVars, dlVars, pmVars, harVars, mcVars, tpVars>>
    \/ EnvTime /\ UNCHANGED <<busVars, semVars, tmpVars, ddVars, cycVars, ingVars, clVars, sgVars, synVars, dlVars, pmVars, harVars, mcVars, tpVars>>
    \/ EnvResAndMonitor /\ UNCHANGED <<busVars, semVars, tmpVars, ddVars, cycVars, ingVars, clVars, sgVars, synVars, dlVars, pmVars, harVars, mcVars, tpVars>>
    \/ DetBody /\ UNCHANGED <<busVars, semVars, tmpVars, ddVars, cycVars, ingVars, clVars, sgVars, synVars, dlVars, pmVars, harVars, mcVars, tpVars>>
    \/ EnvCleanup /\ UNCHANGED <<busVars, semVars, tmpVars, ddVars, cycVars, ingVars, clVars, sgVars, synVars, dlVars, pmVars, harVars, mcVars, tpVars>>
    \/ DetExcept /\ UNCHANGED <<busVars, semVars, tmpVars, ddVars, cycVars, ingVars, clVars, sgVars, synVars, dlVars, pmVars, harVars, mcVars, tpVars>>
    \/ DetFinally /\ UNCHANGED <<busVars, semVars, tmpVars, ddVars, cycVars, ingVars, clVars, sgVars, synVars, dlVars, pmVars, harVars, mcVars, tpVars>>

DetSpec == DetInit /\ [][DetNext]_vars

DetOver == detPc \in {"returned", "propagated"}

\* The first place of x in s, 0 if it has none.
Pos(s, x) == IF x \in Range(s) THEN CHOOSE i \in DOMAIN s : s[i] = x /\ \A j \in 1..(i - 1) : s[j] # x
             ELSE 0

\* C4: every container execute_test_with_determinism created is stopped and
\* removed when the call is over, on every path (a stop or remove that itself
\* raised is left aside).
C4_ContainerRemoved ==
    (DetOver /\ container # "none" /\ ~ctrDelFailed) => container = "removed"

CleanupRank(r) ==
    CASE r = "monitor" -> 1 [] r = "network" -> 2 [] r = "resources" -> 3
      [] r = "container" -> 4

\* C6: cleanup releases in reverse order of acquisition (what was acquired later
\* is released earlier), and in the order monitor, network rules, resource
\* limits, container.
C6_ReverseAcquisitionOrder ==
    \A a \in Range(released), b \in Range(released) :
        /\ Pos(acquired, a) < Pos(acquired, b) => Pos(released, b) < Pos(released, a)
        /\ Pos(released, a) < Pos(released, b) => CleanupRank(a) < CleanupRank(b)

\* C7: the execution goes idle, apply_envelope, container_created, ready,
\* executing, completed|failed, cleanup, idle: the envelope is applied before
\* the container is created, the body executes only after the container is
\* ready, and cleanup follows every completed or failed outcome.
C7_StateOrder ==
    /\ "container_created" \in Range(phases) =>
          /\ "apply_envelope" \in Range(phases)
          /\ Pos(phases, "apply_envelope") < Pos(phases, "container_created")
    /\ "executing" \in Range(phases) =>
          /\ "ready" \in Range(phases)
          /\ Pos(phases, "ready") < Pos(phases, "executing")
    /\ DetOver =>
          \A i \in DOMAIN phases :
              phases[i] \in {"completed", "failed"} =>
                  \E j \in (i + 1)..Len(phases) : phases[j] = "cleanup"

(***************************************************************************)
(* The temp files of the handlers that download artifacts (TmpSpec): the    *)
(* Signal and Ingest workers' process_signal, one task per signal, and the  *)
(* Validate worker's run_validation_cycle, one task.                        *)
(***************************************************************************)
Kinds == {"screenshot", "video", "har", "log"}
Artifacts == {"test.spec.ts", "fixtures.json", "docker-compose.yml"}

TmpInit ==
    /\ tmpWorker \in {"signal", "ingest", "validate"}
    /\ \E k \in 1..MaxSignals :
         /\ tmpWorker = "validate" => k = 1
         /\ tmpPc = [i \in 1..k |-> "start"]
         /\ IF tmpWorker = "validate" THEN tmpKind = [i \in 1..k |-> "none"]
            ELSE tmpKind \in [1..k -> Kinds]
    /\ tmpFiles = {}
    /\ tmpCreated = {}
    /\ BusIdle /\ SemIdle /\ DetIdle /\ DdIdle /\ CycIdle /\ IngIdle
    /\ ClIdle /\ SgIdle /\ SynIdle /\ DlIdle /\ PmIdle /\ HarIdle
    /\ McIdle /\ TpIdle

\* download_file. Signal worker: the object is fetched to a path named after
\* the key; a failed fetch returns None and leaves no file. Ingest worker: a
\* NamedTemporaryFile(delete=False) is created first, then the object fetched
\* into it; a failed fetch returns None. process_signal returns at once on
\* None.
TmpDownload(i) ==
    /\ tmpWorker \in {"signal", "ingest"}
    /\ i \in DOMAIN tmpPc
    /\ tmpPc[i] = "start"
    /\ \E ok \in BOOLEAN :
         /\ tmpPc' = [tmpPc EXCEPT ![i] = IF ok THEN "downloaded" ELSE "done"]
         /\ IF ok \/ tmpWorker = "ingest"
            THEN /\ tmpFiles' = tmpFiles \union {<<i, "download">>}
                 /\ tmpCreated' = tmpCreated \union {<<i, "download">>}
            ELSE UNCHANGED <<tmpFiles, tmpCreated>>
    /\ UNCHANGED <<tmpWorker, tmpKind>>

\* Whether process_signal gets to os.remove(local_path): the Signal worker
\* returns 'skipped' before it for every kind but har and log; the Ingest
\* worker extracts (its extractors return "" on failure) and removes.
RemovesDownload(w, kind) == w = "ingest" \/ kind \in {"har", "log"}

\* process_signal after the download: parse or extract, then the removal.
TmpProcess(i) ==
    /\ tmpWorker \in {"signal", "ingest"}
    /\ i \in DOMAIN tmpPc
    /\ tmpPc[i] = "downloaded"
    /\ tmpFiles' = IF RemovesDownload(tmpWorker, tmpKind[i])
                   THEN tmpFiles \ {<<i, "download">>} ELSE tmpFiles
    /\ tmpPc' = [tmpPc EXCEPT ![i] = "done"]
    /\ UNCHANGED <<tmpWorker, tmpKind, tmpCreated>>

\* _prepare_test_environment: the three artifacts are downloaded (each may come
\* back None), the test directory is created and the downloads copied into it.
ValPrepare ==
    /\ tmpWorker = "validate"
    /\ tmpPc[1] = "start"
    /\ \E got \in SUBSET Artifacts :
         LET made == {<<1, a>> : a \in got} \union {<<1, "test_dir">>}
         IN  /\ tmpFiles' = tmpFiles \union made
             /\ tmpCreated' = tmpCreated \union made
    /\ tmpPc' = [tmpPc EXCEPT ![1] = "prepared"]
    /\ UNCHANGED <<tmpWorker, tmpKind>>

\* run_validation_cycle between _prepare_test_environment and
\* _cleanup_test_environment: the runs, the metrics, the save; an exception
\* there leaves the function without the cleanup call.
ValCycle ==
    /\ tmpWorker = "validate"
    /\ tmpPc[1] = "prepared"
    /\ \E raised \in BOOLEAN :
         tmpPc' = [tmpPc EXCEPT ![1] = IF raised THEN "done" ELSE "cleanup"]
    /\ UNCHANGED <<tmpWorker, tmpKind, tmpFiles, tmpCreated>>

\* _cleanup_test_environment: shutil.rmtree(test_dir).
ValCleanup ==
    /\ tmpWorker = "validate"
    /\ tmpPc[1] = "cleanup"
    /\ tmpFiles' = tmpFiles \ {<<1, "test_dir">>}
    /\ tmpPc' = [tmpPc EXCEPT ![1] = "done"]
    /\ UNCHANGED <<tmpWorker, tmpKind, tmpCreated>>

TmpNext ==
    \/ \E i \in 1..MaxSignals :
         \/ TmpDownload(i) /\ UNCHANGED <<busVars, semVars, detVars, ddVars, cycVars, ingVars, clVars, sgVars, synVars, dlVars, pmVars, harVars, mcVars, tpVars>>
         \/ TmpProcess(i) /\ UNCHANGED <<busVars, semVars, detVars, ddVars, cycVars, ingVars, clVars, sgVars, synVars, dlVars, pmVars, harVars, mcVars, tpVars>>
    \/ ValPrepare /\ UNCHANGED <<busVars, semVars, detVars, ddVars, cycVars, ingVars, clVars, sgVars, synVars, dlVars, pmVars, harVars, mcVars, tpVars>>
    \/ ValCycle /\ UNCHANGED <<busVars, semVars, detVars, ddVars, cycVars, ingVars, clVars, sgVars, synVars, dlVars, pmVars, harVars, mcVars, tpVars>>
    \/ ValCleanup /\ UNCHANGED <<busVars, semVars, detVars, ddVars, cycVars, ingVars, clVars, sgVars, synVars, dlVars, pmVars, harVars, mcVars, tpVars>>

TmpSpec == TmpInit /\ [][TmpNext]_vars

TmpOver == \A i \in DOMAIN tmpPc : tmpPc[i] = "done"

\* C8: when a handler that downloaded artifacts is over, every temp file or
\* directory it created has been removed, on every exit path.
C8_TempFilesRemoved == TmpOver => tmpFiles = {}

(***************************************************************************)
(* The delta minimizer: _delta_minimization_algorithm (DdminSpec).          *)
(***************************************************************************)
StepIds == 1..MaxStepId
StepLists == UNION {[1..len -> StepIds] : len \in 0..MaxSteps}

\* The fail predicates of the test: the source's own stand-in ("stub"), a test
\* that never fails, one that fails when all steps of req are present, and one
\* that fails when exactly the steps of req are present.
Preds ==
    {[kind |-> k, req |-> {}] : k \in {"stub", "never"}}
        \union [kind : {"needs", "only"}, req : SUBSET StepIds]

Min(a, b) == IF a <= b THEN a ELSE b
Max(a, b) == IF a >= b THEN a ELSE b

\* len(steps) > len(steps) * 0.5
StubFails(s) == 2 * Len(s) > Len(s)

\* Whether the test fails on the step list s.
Fails(s, pred) ==
    CASE pred.kind = "stub"  -> StubFails(s)
      [] pred.kind = "never" -> FALSE
      [] pred.kind = "needs" -> pred.req \subseteq Range(s)
      [] pred.kind = "only"  -> Range(s) = pred.req

\* _test_steps_still_fail: one evaluation of the test on the reduced list.
_test_steps_still_fail(s, pred) == Fails(s, pred)

\* subset_size = len(items) // n; range(0, len(items), subset_size) raises
\* ValueError when subset_size is 0.
SplitRaises(items, k) == Len(items) \div k = 0

\* _split_into_subsets: items[i:i + subset_size] for i = 0, subset_size, ...
_split_into_subsets(items, k) ==
    LET size == Len(items) \div k
        count == (Len(items) + size - 1) \div size
    IN  [j \in 1..count |-> SubSeq(items, (j - 1) * size + 1, Min(j * size, Len(items)))]

\* remaining_steps = [s for s in steps if s not in subset]
Remaining(items, subset) ==
    LET keep(x) == x \notin Range(subset) IN SelectSeq(items, keep)

\* The for loop: the first subset without which the test still fails, 0 if
\* there is none.
FirstRemovable_Untested(items, subsets, pred) == 1
FirstRemovable(items, subsets, pred) ==
    LET ok == {j \in DOMAIN subsets :
                  _test_steps_still_fail(Remaining(items, subsets[j]), pred)}
    IN  IF ok = {} THEN 0 ELSE CHOOSE j \in ok : \A i \in ok : j <= i

\* The evaluations of one pass of the for loop: up to and with the first
\* subset whose removal still fails, or one per subset.
EvalsOfPass(subsets, j) == IF j # 0 THEN j ELSE Len(subsets)

\* if len(original_steps) <= 1: return {..., 'status': 'minimal_already'}
MinimalAlready_Never(s) == FALSE
MinimalAlready(s) == Len(s) <= 1

DdInit ==
    /\ ddInput \in StepLists
    /\ ddPred \in Preds
    /\ steps = ddInput
    /\ n = 2
    /\ ddPc = "start"
    /\ ddLast = "none"
    /\ ddEvals = 0
    /\ BusIdle /\ SemIdle /\ DetIdle /\ TmpIdle /\ CycIdle /\ IngIdle
    /\ ClIdle /\ SgIdle /\ SynIdle /\ DlIdle /\ PmIdle /\ HarIdle
    /\ McIdle /\ TpIdle

\* _perform_delta_minimization from the step list on: a list of at most one
\* step is reported as 'minimal_already' without calling the algorithm.
DdPerform ==
    /\ ddPc = "start"
    /\ IF MinimalAlready(steps)
       THEN ddPc' = "done" /\ ddLast' = "minimal_already"
       ELSE ddPc' = "loop" /\ UNCHANGED ddLast
    /\ UNCHANGED <<ddInput, ddPred, steps, n, ddEvals>>

\* while len(steps) >= 2 is false: return steps.
DdReturn ==
    /\ ddPc = "loop"
    /\ Len(steps) < 2
    /\ ddPc' = "done"
    /\ UNCHANGED <<ddInput, ddPred, steps, n, ddLast, ddEvals>>

\* One iteration of the while loop whose split raises ValueError.
DdSplitError ==
    /\ ddPc = "loop"
    /\ Len(steps) >= 2
    /\ SplitRaises(steps, n)
    /\ ddPc' = "error"
    /\ UNCHANGED <<ddInput, ddPred, steps, n, ddLast, ddEvals>>

\* One iteration of the while loop: split, try each subset in turn, then
\* either take the first reduction that still fails (n = max(n - 1, 2)) or
\* refine the granularity (n = min(n * 2, len(steps))).
DdIterate ==
    /\ ddPc = "loop"
    /\ Len(steps) >= 2
    /\ ~SplitRaises(steps, n)
    /\ LET subsets == _split_into_subsets(steps, n)
           j == FirstRemovable(steps, subsets, ddPred)
       IN  /\ ddEvals' = Min(ddEvals + EvalsOfPass(subsets, j), MaxEvals)
           /\ IF j # 0
              THEN /\ steps' = Remaining(steps, subsets[j])
                   /\ n' = Max(n - 1, 2)
                   /\ ddLast' = "reduced"
              ELSE /\ n' = Min(n * 2, Len(steps))
                   /\ ddLast' = IF n >= Len(steps) THEN "exhausted" ELSE "refined"
                   /\ UNCHANGED steps
    /\ UNCHANGED <<ddInput, ddPred, ddPc>>

DdNext ==
    \/ DdPerform /\ UNCHANGED <<busVars, semVars, detVars, tmpVars, cycVars, ingVars, clVars, sgVars, synVars, dlVars, pmVars, harVars, mcVars, tpVars>>
    \/ DdReturn /\ UNCHANGED <<busVars, semVars, detVars, tmpVars, cycVars, ingVars, clVars, sgVars, synVars, dlVars, pmVars, harVars, mcVars, tpVars>>
    \/ DdSplitError /\ UNCHANGED <<busVars, semVars, detVars, tmpVars, cycVars, ingVars, clVars, sgVars, synVars, dlVars, pmVars, harVars, mcVars, tpVars>>
    \/ DdIterate /\ UNCHANGED <<busVars, semVars, detVars, tmpVars, cycVars, ingVars, clVars, sgVars, synVars, dlVars, pmVars, harVars, mcVars, tpVars>>

DdminSpec == DdInit /\ [][DdNext]_vars

\* a is a subsequence of b.
RECURSIVE IsSubseq(_, _)
IsSubseq(a, b) ==
    IF a = <<>> THEN TRUE
    ELSE IF b = <<>> THEN FALSE
    ELSE IF Head(a) = Head(b) THEN IsSubseq(Tail(a), Tail(b))
    ELSE IsSubseq(a, Tail(b))

\* C9: the minimizer terminates: once an iteration found no reduction that
\* still fails at a granularity that had reached the number of steps, the loop
\* has stopped and the current steps are returned.
C9_StopsWhenExhausted == ddLast = "exhausted" => ddPc = "done"

\* C10: for a step list on which the test fails, the list the minimizer
\* returns is a subsequence of it on which the test still fails.
C10_ReturnedStillFails ==
    (ddPc = "done" /\ Fails(ddInput, ddPred)) =>
        (IsSubseq(steps, ddInput) /\ Fails(steps, ddPred))

\* A failing list of three steps was reduced, at a finer granularity, to the one
\* step the failure needs, and returned.
C10_Witness ==
    /\ ddPc = "done"
    /\ ddPred.kind = "needs"
    /\ Len(ddInput) >= 3
    /\ Fails(ddInput, ddPred)
    /\ Len(steps) = 1
    /\ Range(steps) = ddPred.req

\* C32: given steps [a,b,c,d] and a test that fails exactly when both b and d
\* are present, the minimizer returns [b,d] after at most 8 test evaluations.
C32_BDWithinEight ==
    (ddInput = <<1, 2, 3, 4>> /\ ddPred = [kind |-> "needs", req |-> {2, 4}]) =>
        /\ ddEvals <= 8
        /\ ddPc = "done" => steps = <<2, 4>>

RECURSIVE Flatten(_)
Flatten(ss) == IF ss = <<>> THEN <<>> ELSE Head(ss) \o Flatten(Tail(ss))

\* C36: for every list and every n >= 1, n greater than the length of the list
\* included, _split_into_subsets returns subsets that together hold every item
\* of the list exactly once.
C36_SplitPartition ==
    \A k \in 1..(MaxSteps + 1) :
        /\ ~SplitRaises(ddInput, k)
        /\ Flatten(_split_into_subsets(ddInput, k)) = ddInput

\* C40: at every iteration of the minimizer's loop 2 <= n <= len(steps), so the
\* subset size is at least 1 and the split does not fail.
C40_GranularityInRange ==
    /\ (ddPc = "loop" /\ Len(steps) >= 2) => (2 <= n /\ n <= Len(steps))
    /\ ddPc # "error"

(***************************************************************************)
(* One validation cycle: process_validation_request, run_validation_cycle  *)
(* (CycSpec).                                                               *)
(***************************************************************************)
\* config.min_runs, config.max_runs
min_runs == 5
max_runs == 20

\* config.flaky_threshold in hundredths: the default 0.3 and a configured 0.2
Thresholds == {30, 20}
\* flaky_threshold: float = 0.3, in hundredths
flaky_threshold == 30

\* the determinism toggles a request can enable
Layers == {"network_shaping", "time_freezing", "resource_limits", "container_isolation"}

Outcomes == {"passed", "failed", "raised"}

\* A rational number num/den with den > 0.
Rat(a, b) == [num |-> a, den |-> b]
RatEq(x, y) == x.num * y.den = y.num * x.den
RatGE(x, y) == x.num * y.den >= y.num * x.den
RatGT(x, y) == x.num * y.den > y.num * x.den

\* runs = validation_config.get('runs', self.min_runs)
RequestedRuns(req) == IF req.hasRuns THEN req.runs ELSE min_runs

\* range(runs): the number of tasks the cycle creates
TaskCount(req) == Max(RequestedRuns(req), 0)

\* _run_playwright_test: the only toggle it reads is enable_resource_limits
LayersApplied(det) == det \intersect {"resource_limits"}

\* _execute_single_run: the record of run run_number. A test that fails
\* returns its output as logs; an exception raised inside the run is caught and
\* returned as a failed record with str(e) as logs and error.
_execute_single_run_NoLogs(run_number, o, det) ==
    [run_number |-> run_number, passed |-> (o = "passed"), logs |-> "",
     error |-> (o = "raised"), applied |-> LayersApplied(det)]
_execute_single_run(run_number, o, det) ==
    [run_number |-> run_number,
     passed     |-> (o = "passed"),
     logs       |-> CASE o = "passed" -> "test_output"
                      [] o = "failed" -> "failure_output"
                      [] o = "raised" -> "exception_text",
     error      |-> (o = "raised"),
     applied    |-> IF o = "raised" THEN {} ELSE LayersApplied(det)]

\* len([r for r in run_results if r.get('passed')])
RECURSIVE PassedCount_Failed(_)
PassedCount_Failed(rr) ==
    IF rr = <<>> THEN 0
    ELSE (IF Head(rr).passed THEN 0 ELSE 1) + PassedCount_Failed(Tail(rr))
RECURSIVE PassedCount(_)
PassedCount(rr) ==
    IF rr = <<>> THEN 0
    ELSE (IF Head(rr).passed THEN 1 ELSE 0) + PassedCount(Tail(rr))

\* results_binary = [1 if r.get('passed') else 0 for r in run_results]
results_binary(rr) == [i \in DOMAIN rr |-> IF rr[i].passed THEN 1 ELSE 0]

RECURSIVE SumSeq(_)
SumSeq(xs) == IF xs = <<>> THEN 0 ELSE Head(xs) + SumSeq(Tail(xs))

\* np.var(xs): the mean of the squared deviations from the mean, as the exact
\* rational sum((x*len - total)^2) / len^3.
np_var_Sample(xs) ==
    LET len == Len(xs)
        total == SumSeq(xs)
        sq == [i \in DOMAIN xs |-> (xs[i] * len - total) * (xs[i] * len - total)]
    IN  Rat(SumSeq(sq), len * len * (len - 1))
np_var(xs) ==
    LET len == Len(xs)
        total == SumSeq(xs)
        sq == [i \in DOMAIN xs |-> (xs[i] * len - total) * (xs[i] * len - total)]
    IN  Rat(SumSeq(sq), len * len * len)

\* The if/elif chain on pass_rate.
stability_class_GT(pass_rate) ==
    IF RatEq(pass_rate, Rat(1, 1)) THEN "stable"
    ELSE IF RatGT(pass_rate, Rat(4, 5)) THEN "mostly_stable"
    ELSE IF RatGT(pass_rate, Rat(1, 2)) THEN "unstable"
    ELSE "very_unstable"
stability_class(pass_rate) ==
    IF RatEq(pass_rate, Rat(1, 1)) THEN "stable"
    ELSE IF RatGE(pass_rate, Rat(4, 5)) THEN "mostly_stable"
    ELSE IF RatGE(pass_rate, Rat(1, 2)) THEN "unstable"
    ELSE "very_unstable"

\* if len(set(results_binary)) > 1: np.var(results_binary) else 0.0
flaky_score(bin) ==
    IF Cardinality(Range(bin)) > 1 THEN np_var(bin) ELSE Rat(0, 1)

\* _calculate_stability_metrics. For an empty list the early return has no
\* 'stability_class' key.
_calculate_stability_metrics(rr) ==
    IF rr = <<>>
    THEN [set |-> TRUE, stability_score |-> Rat(0, 1), flaky_score |-> Rat(1, 1),
          consistency_score |-> Rat(0, 1), has_class |-> FALSE,
          stability_class |-> "missing"]
    ELSE LET pass_rate == Rat(PassedCount(rr), Len(rr))
             flaky == flaky_score(results_binary(rr))
         IN  [set |-> TRUE, stability_score |-> pass_rate, flaky_score |-> flaky,
              consistency_score |-> Rat(flaky.den - flaky.num, flaky.den),
              has_class |-> TRUE,
              stability_class |-> stability_class(pass_rate)]

\* failing_runs = [r for r in run_results if not r.get('passed')]
HasFailingRuns_Unchecked(rr) == TRUE
HasFailingRuns(rr) == \E i \in DOMAIN rr : ~rr[i].passed

\* _extract_test_steps: the same three steps for every run
_extract_test_steps == <<1, 2, 3>>

\* _perform_delta_minimization: None without a failing run, 'minimal_already'
\* for at most one step, else the result of the algorithm.
_perform_delta_minimization(rr) ==
    IF ~HasFailingRuns(rr) THEN "None"
    ELSE IF Len(_extract_test_steps) <= 1 THEN "minimal_already"
    ELSE "completed"

\* if stability_analysis['flaky_score'] > self.flaky_threshold
AboveThreshold(analysis, thr) == RatGT(analysis.flaky_score, Rat(thr, 100))

\* What can raise inside _save_validation_results: the connection or a
\* statement, the cache write, or the commit.
SaveFaults == {"none", "db_connect", "cache", "db_commit"}

CycInit ==
    /\ cycReq \in
        {r \in [hasRuns : BOOLEAN, runs : -1..MaxCycleRuns, thr : Thresholds,
                det : SUBSET Layers] : r.hasRuns \/ r.runs = 0}
    /\ cycPc = "runs"
    /\ runOutcome = <<>>
    /\ run_results = <<>>
    /\ stability_analysis = [set |-> FALSE]
    /\ minimization_results = "unset"
    /\ evalApplied = {}
    /\ cycRows = <<>>
    /\ cycRepro = "pending"
    /\ cycCache = FALSE
    /\ cycFault = "none"
    /\ BusIdle /\ SemIdle /\ DetIdle /\ TmpIdle /\ DdIdle /\ IngIdle
    /\ ClIdle /\ SgIdle /\ SynIdle /\ DlIdle /\ PmIdle /\ HarIdle
    /\ McIdle /\ TpIdle

\* One task of the gather: run run_number ends and its record is collected
\* (a record returned by _execute_single_run; results are kept in task order).
CycRun(o) ==
    /\ cycPc = "runs"
    /\ Len(run_results) < TaskCount(cycReq)
    /\ runOutcome' = Append(runOutcome, o)
    /\ run_results' =
           Append(run_results,
                  _execute_single_run(Len(run_results) + 1, o, cycReq.det))
    /\ UNCHANGED <<cycReq, cycPc, stability_analysis, minimization_results,
                   evalApplied, cycRows, cycRepro, cycCache, cycFault>>

\* stability_analysis = self._calculate_stability_metrics(run_results)
CycMetrics ==
    /\ cycPc = "runs"
    /\ Len(run_results) = TaskCount(cycReq)
    /\ stability_analysis' = _calculate_stability_metrics(run_results)
    /\ cycPc' = "minimize"
    /\ UNCHANGED <<cycReq, runOutcome, run_results, minimization_results,
                   evalApplied, cycRows, cycRepro, cycCache, cycFault>>

\* Perform delta minimization if needed. _test_steps_still_fail runs no test,
\* so an evaluation applies no determinism layer.
CycMinimize ==
    /\ cycPc = "minimize"
    /\ minimization_results' =
           IF AboveThreshold(stability_analysis, cycReq.thr)
           THEN _perform_delta_minimization(run_results)
           ELSE "None"
    /\ evalApplied' = {}
    /\ cycPc' = "save"
    /\ UNCHANGED <<cycReq, runOutcome, run_results, stability_analysis,
                   cycRows, cycRepro, cycCache, cycFault>>

\* The rows the INSERT loop adds: one per element of run_results, under its
\* run_number.
InsertedRows(rr) ==
    [i \in 1..Len(rr) |-> Cardinality({k \in DOMAIN rr : rr[k].run_number = i})]

\* _save_validation_results: UPDATE repros, INSERT per run, redis setex, then
\* commit; any exception is logged and the transaction is never committed.
\* Reading stability_class for the cache value raises KeyError when the
\* analysis has none.
CycSave(fault) ==
    /\ cycPc = "save"
    /\ LET f == IF fault \in {"none", "cache", "db_commit"}
                   /\ ~stability_analysis.has_class
                THEN "key_error" ELSE fault
       IN  /\ cycFault' = f
           /\ cycCache' = (f \in {"none", "db_commit"})
           /\ IF f = "none"
              THEN /\ cycRepro' = "validated"
                   /\ cycRows' = InsertedRows(run_results)
              ELSE UNCHANGED <<cycRepro, cycRows>>
    /\ cycPc' = "done"
    /\ UNCHANGED <<cycReq, runOutcome, run_results, stability_analysis,
                   minimization_results, evalApplied>>

CycNext ==
    \/ \E o \in Outcomes :
         CycRun(o) /\ UNCHANGED <<busVars, semVars, detVars, tmpVars, ddVars, ingVars, clVars, sgVars, synVars, dlVars, pmVars, harVars, mcVars, tpVars>>
    \/ CycMetrics /\ UNCHANGED <<busVars, semVars, detVars, tmpVars, ddVars, ingVars, clVars, sgVars, synVars, dlVars, pmVars, harVars, mcVars, tpVars>>
    \/ CycMinimize /\ UNCHANGED <<busVars, semVars, detVars, tmpVars, ddVars, ingVars, clVars, sgVars, synVars, dlVars, pmVars, harVars, mcVars, tpVars>>
    \/ \E fault \in SaveFaults :
         CycSave(fault) /\ UNCHANGED <<busVars, semVars, detVars, tmpVars, ddVars, ingVars, clVars, sgVars, synVars, dlVars, pmVars, harVars, mcVars, tpVars>>

CycSpec == CycInit /\ [][CycNext]_vars

\* The runs that passed and the runs that ran, as they happened.
PassesOf(outs) == Cardinality({i \in DOMAIN outs : outs[i] = "passed"})
CycAnalysed == cycPc \in {"minimize", "save", "done"}

\* C11: delta minimization is performed if and only if flaky_score is above
\* flaky_threshold and at least one run failed; when all runs pass it is
\* skipped.
C11_MinimizationTrigger ==
    cycPc \in {"save", "done"} =>
        ((minimization_results # "None") <=>
            (/\ AboveThreshold(stability_analysis, cycReq.thr)
             /\ \E i \in DOMAIN runOutcome : runOutcome[i] # "passed"))

\* A cycle with a threshold of 0.2 and mixed results whose minimization ran.
C11_Witness ==
    /\ cycPc = "done"
    /\ minimization_results = "completed"
    /\ \E i \in DOMAIN runOutcome : runOutcome[i] = "failed"
    /\ \E i \in DOMAIN runOutcome : runOutcome[i] = "passed"

\* C37: with the default flaky_threshold of 0.3 no non-empty set of run
\* results triggers delta minimization in a cycle: the flaky_score of a binary
\* pass sequence never exceeds 0.25.
C37_DefaultNeverMinimizes ==
    (cycPc \in {"save", "done"} /\ cycReq.thr = flaky_threshold
        /\ run_results # <<>>) =>
        /\ ~RatGT(stability_analysis.flaky_score, Rat(1, 4))
        /\ minimization_results = "None"

\* A cycle under the default threshold whose runs split evenly between passed
\* and failed (flaky_score 0.25) went by without minimization.
C37_Witness ==
    /\ cycPc = "done"
    /\ cycReq.thr = flaky_threshold
    /\ RatEq(stability_analysis.flaky_score, Rat(1, 4))
    /\ \E i \in DOMAIN runOutcome : runOutcome[i] = "failed"
    /\ minimization_results = "None"

\* C12: for p passing runs out of n >= 1, stability_score is p/n and the
\* class is stable iff p = n, mostly_stable iff 0.8 <= p/n < 1, unstable iff
\* 0.5 <= p/n < 0.8, very_unstable otherwise.
C12_ScoreAndClass ==
    (CycAnalysed /\ runOutcome # <<>>) =>
        LET p == PassesOf(runOutcome)
            len == Len(runOutcome)
            class == stability_analysis.stability_class
        IN  /\ RatEq(stability_analysis.stability_score, Rat(p, len))
            /\ (class = "stable") <=> (p = len)
            /\ (class = "mostly_stable") <=> (5 * p >= 4 * len /\ p < len)
            /\ (class = "unstable") <=> (2 * p >= len /\ 5 * p < 4 * len)
            /\ (class = "very_unstable") <=> (2 * p < len)

\* Four passes out of five: a pass rate of exactly 0.8.
C12_Witness ==
    /\ CycAnalysed
    /\ Len(runOutcome) = 5
    /\ PassesOf(runOutcome) = 4
    /\ stability_analysis.stability_class = "mostly_stable"

\* C13: for p passes out of n >= 1, flaky_score is p*(n-p)/n^2 when the runs
\* are mixed and 0 otherwise, consistency_score is 1 - flaky_score, and the
\* pattern PPFPF gives 0.6, 0.24 and unstable.
C13_FlakyScore ==
    (CycAnalysed /\ runOutcome # <<>>) =>
        LET p == PassesOf(runOutcome)
            len == Len(runOutcome)
            a == stability_analysis
        IN  /\ (p > 0 /\ p < len) => RatEq(a.flaky_score, Rat(p * (len - p), len * len))
            /\ (p = 0 \/ p = len) => RatEq(a.flaky_score, Rat(0, 1))
            /\ a.consistency_score.num * a.flaky_score.den
                   = (a.flaky_score.den - a.flaky_score.num) * a.consistency_score.den
            /\ runOutcome = <<"passed", "passed", "failed", "passed", "failed">> =>
                   /\ RatEq(a.stability_score, Rat(6, 10))
                   /\ RatEq(a.flaky_score, Rat(24, 100))
                   /\ a.stability_class = "unstable"

\* The pattern PPFPF has been analysed.
C13_Witness ==
    /\ CycAnalysed
    /\ runOutcome = <<"passed", "passed", "failed", "passed", "failed">>
    /\ stability_analysis.flaky_score.num > 0

\* The metrics of the analysed runs plus one additional passing run.
WithOnePassMore ==
    _calculate_stability_metrics(
        Append(run_results,
               _execute_single_run(Len(run_results) + 1, "passed", cycReq.det)))

\* C14 as stated: on the runs plus one passing run stability_score is not
\* lower and flaky_score is not higher.
C14_AddingPassMonotone ==
    (CycAnalysed /\ run_results # <<>>) =>
        /\ RatGE(WithOnePassMore.stability_score, stability_analysis.stability_score)
        /\ RatGE(stability_analysis.flaky_score, WithOnePassMore.flaky_score)

\* C14: on the runs plus one passing run stability_score is not lower, and
\* flaky_score is not higher exactly when at least half of the runs passed.
C14_AddingPassAmended ==
    (CycAnalysed /\ run_results # <<>>) =>
        /\ RatGE(WithOnePassMore.stability_score, stability_analysis.stability_score)
        /\ RatGE(stability_analysis.flaky_score, WithOnePassMore.flaky_score)
               <=> (2 * PassesOf(runOutcome) >= Len(runOutcome))

\* One pass out of five: a further pass raises the variance from 4/25 to 8/36.
C14_Witness ==
    /\ CycAnalysed
    /\ Len(runOutcome) = 5
    /\ PassesOf(runOutcome) = 1
    /\ RatGT(WithOnePassMore.flaky_score, stability_analysis.flaky_score)

\* C15: after a cycle requested with runs = N completes without the database
\* itself failing, the repro is validated and the runs table holds exactly one
\* row for each iteration 1..N.
C15_RowsPerIteration ==
    (cycPc = "done" /\ cycFault \notin {"db_connect", "db_commit"}) =>
        /\ cycRepro = "validated"
        /\ DOMAIN cycRows = 1..RequestedRuns(cycReq)
        /\ \A i \in DOMAIN cycRows : cycRows[i] = 1

\* C16: the number of runs a cycle executes is between min_runs and max_runs.
C16_RunsWithinBounds ==
    cycPc # "runs" =>
        (min_runs <= Len(run_results) /\ Len(run_results) <= max_runs)

\* C17: a run that fails or raises is recorded as failed with its diagnostic
\* text in logs, and every run of the cycle has its record (and, once saved,
\* its row).
C17_FailedRunRecorded ==
    cycPc # "runs" =>
        /\ Len(run_results) = TaskCount(cycReq)
        /\ \A i \in DOMAIN run_results :
              /\ run_results[i].run_number = i
              /\ run_results[i].passed <=> (runOutcome[i] = "passed")
              /\ runOutcome[i] = "failed" => run_results[i].logs = "failure_output"
              /\ runOutcome[i] = "raised" => run_results[i].logs = "exception_text"
        /\ (cycPc = "done" /\ cycFault = "none") =>
              \A i \in 1..TaskCount(cycReq) : cycRows[i] = 1

\* A saved cycle in which the first run raised and a later run passed.
C17_Witness ==
    /\ cycPc = "done"
    /\ cycFault = "none"
    /\ Len(runOutcome) >= 3
    /\ runOutcome[1] = "raised"
    /\ runOutcome[Len(runOutcome)] = "passed"
    /\ cycRows[1] = 1

\* C18: every run whose test executed and every minimization evaluation had
\* each determinism layer the request enables applied.
C18_EnvelopeApplied ==
    /\ \A i \in DOMAIN run_results :
          runOutcome[i] # "raised" => cycReq.det \subseteq run_results[i].applied
    /\ (cycPc \in {"save", "done"} /\ minimization_results = "completed") =>
          cycReq.det \subseteq evalApplied

\* C38: the cache holds stability:<repro_id> for a cycle only if that cycle's
\* validated status and run rows were committed; if the store write or the
\* commit fails, the cache is left unchanged.
C38_CacheOnlyIfCommitted ==
    cycCache =>
        /\ cycRepro = "validated"
        /\ DOMAIN cycRows = 1..TaskCount(cycReq)

(***************************************************************************)
(* Ingest handlers on one report: process_ingestion_request and            *)
(* update_report_with_extracted_text (IngSpec, RaceSpec).                   *)
(***************************************************************************)
\* text = item['extracted_text'][:2000]
TruncateAt == 2000

\* The lengths of the text an extractor yields: empty, short, over the limit.
TextLens == {0, 1, TruncateAt + 1}

\* asyncio.gather returns the results in the order of the tasks, which is the
\* order of signal_data_list.
GatherOrder_Completion(h) == ingOrder[h]
GatherOrder(h) == [k \in DOMAIN sigText |-> k]

\* One element of extracted_data: the dict process_signal returned. A failed
\* download returns {'signal_id', 'error'} without 'extracted_text'.
ExtractedItem(h, i) ==
    [signal_id |-> i,
     has_text  |-> ingResults[h][i] = "ok",
     extracted_text |-> IF ingResults[h][i] = "ok" THEN sigText[i] ELSE 0]

extracted_data(h) == [k \in DOMAIN GatherOrder(h) |-> ExtractedItem(h, GatherOrder(h)[k])]

\* if 'extracted_text' in item and item['extracted_text']
HasFrame(item) == item.has_text /\ item.extracted_text > 0

\* updates: one frame "--- Signal <id> ---" with text[:2000] per item that
\* has text, in the order of extracted_data.
Updates(h) ==
    LET kept == SelectSeq(extracted_data(h), HasFrame)
    IN  [k \in DOMAIN kept |->
            [signal_id |-> kept[k].signal_id,
             text |-> Min(kept[k].extracted_text, TruncateAt)]]

IngStart(handlers) ==
    /\ ingHandlers = handlers
    /\ sigText \in UNION {[1..len -> TextLens] : len \in 0..MaxSignals}
    /\ ingPc = [h \in handlers |-> "extract"]
    /\ ingResults = [h \in handlers |-> [i \in DOMAIN sigText |-> "pending"]]
    /\ ingOrder = [h \in handlers |-> <<>>]
    /\ ingRead = [h \in handlers |-> <<>>]
    /\ ingWritten = [h \in handlers |-> <<>>]
    /\ description = <<>>
    /\ committed = <<>>
    /\ BusIdle /\ SemIdle /\ DetIdle /\ TmpIdle /\ DdIdle /\ CycIdle
    /\ ClIdle /\ SgIdle /\ SynIdle /\ DlIdle /\ PmIdle /\ HarIdle
    /\ McIdle /\ TpIdle

\* One handler.
IngInit == IngStart({1})

\* Several handlers (replicas or redeliveries) on the same report.
RaceInit == IngStart(1..MaxDeliveries)

\* process_with_limit(signal_data) of one handler finishes: the download
\* failed (or the signal raised), or process_signal returned its text.
IngExtract(h, i) ==
    /\ h \in ingHandlers
    /\ i \in DOMAIN sigText
    /\ ingPc[h] = "extract"
    /\ ingResults[h][i] = "pending"
    /\ \E ok \in BOOLEAN :
         ingResults' = [ingResults EXCEPT ![h][i] = IF ok THEN "ok" ELSE "failed"]
    /\ ingOrder' = [ingOrder EXCEPT ![h] = Append(@, i)]
    /\ UNCHANGED <<ingHandlers, sigText, ingPc, ingRead, ingWritten,
                   description, committed>>

\* The gather is complete. Without signals the handler returns; otherwise
\* update_report_with_extracted_text selects the current description.
IngSelect(h) ==
    /\ h \in ingHandlers
    /\ ingPc[h] = "extract"
    /\ \A i \in DOMAIN sigText : ingResults[h][i] # "pending"
    /\ IF sigText = <<>>
       THEN /\ ingPc' = [ingPc EXCEPT ![h] = "done"]
            /\ UNCHANGED ingRead
       ELSE /\ ingPc' = [ingPc EXCEPT ![h] = "read"]
            /\ ingRead' = [ingRead EXCEPT ![h] = description]
    /\ UNCHANGED <<ingHandlers, sigText, ingResults, ingOrder, ingWritten,
                   description, committed>>

\* new_description = current_description + '\n'.join(updates); UPDATE and
\* commit, unless there is no update or the statement raises.
IngUpdate(h) ==
    /\ h \in ingHandlers
    /\ ingPc[h] = "read"
    /\ \E raises \in BOOLEAN :
         IF Updates(h) # <<>> /\ ~raises
         THEN LET new_description == ingRead[h] \o Updates(h)
              IN  /\ description' = new_description
                  /\ committed' = Append(committed, new_description)
                  /\ ingWritten' = [ingWritten EXCEPT ![h] = Append(@, new_description)]
         ELSE UNCHANGED <<description, committed, ingWritten>>
    /\ ingPc' = [ingPc EXCEPT ![h] = "done"]
    /\ UNCHANGED <<ingHandlers, sigText, ingResults, ingOrder, ingRead>>

IngNext ==
    \E h \in 1..MaxDeliveries :
        \/ \E i \in 1..MaxSignals :
             IngExtract(h, i)
                 /\ UNCHANGED <<busVars, semVars, detVars, tmpVars, ddVars, cycVars, clVars, sgVars, synVars, dlVars, pmVars, harVars, mcVars, tpVars>>
        \/ IngSelect(h) /\ UNCHANGED <<busVars, semVars, detVars, tmpVars, ddVars, cycVars, clVars, sgVars, synVars, dlVars, pmVars, harVars, mcVars, tpVars>>
        \/ IngUpdate(h) /\ UNCHANGED <<busVars, semVars, detVars, tmpVars, ddVars, cycVars, clVars, sgVars, synVars, dlVars, pmVars, harVars, mcVars, tpVars>>

IngSpec == IngInit /\ [][IngNext]_vars

RaceSpec == RaceInit /\ [][IngNext]_vars

\* a is a prefix of b.
IsPrefix(a, b) == Len(a) <= Len(b) /\ SubSeq(b, 1, Len(a)) = a

\* C19: every committed value of the description has every earlier committed
\* value as a prefix.
C19_DescriptionOnlyGrows ==
    \A i, j \in DOMAIN committed :
        i < j => IsPrefix(committed[i], committed[j])

\* C20: a handler commits at most one update; what it appends to the
\* description it read is one frame per signal whose extraction gave a
\* non-empty text, in signal order, each text cut to 2000 characters; without
\* such a signal it commits nothing.
C20_FramesInSignalOrder ==
    \A h \in ingHandlers :
        ingPc[h] = "done" =>
            LET withText == {i \in DOMAIN sigText :
                                ingResults[h][i] = "ok" /\ sigText[i] > 0}
            IN  /\ Len(ingWritten[h]) <= 1
                /\ withText = {} => ingWritten[h] = <<>>
                /\ ingWritten[h] # <<>> =>
                      LET value == ingWritten[h][1]
                          new == SubSeq(value, Len(ingRead[h]) + 1, Len(value))
                      IN  /\ IsPrefix(ingRead[h], value)
                          /\ {new[k].signal_id : k \in DOMAIN new} = withText
                          /\ \A k \in DOMAIN new :
                                /\ new[k].text <= TruncateAt
                                /\ new[k].text = Min(sigText[new[k].signal_id], TruncateAt)
                                /\ k > 1 => new[k - 1].signal_id < new[k].signal_id

\* The second signal finished first, its text was over the limit, and both
\* frames were committed.
C20_Witness ==
    \E h \in ingHandlers :
        /\ ingPc[h] = "done"
        /\ ingOrder[h] = <<2, 1>>
        /\ sigText[2] > TruncateAt
        /\ ingWritten[h] # <<>>
        /\ Len(ingWritten[h][1]) = 2

(***************************************************************************)
(* Clustering of error signatures: cluster_error_signatures (ClusterSpec). *)
(***************************************************************************)
\* _extract_error_signature: a signature carries its hash and 'frequency': 1
ExtractedSignatures ==
    UNION {[1..len -> [hash : 1..MaxSigs, frequency : {1}]] : len \in 0..MaxInput}

\* cluster_id = cluster_labels[i], or f"noise_{i}" for the label -1
ClusterKey(labels, i) ==
    IF labels[i] = -1 THEN <<"noise", i>> ELSE <<"cluster", labels[i]>>

\* _merge_cluster_signatures: a copy of the first signature of the cluster with
\* frequency = len(signatures)
_merge_cluster_signatures_KeepFrequency(sigs, members) ==
    sigs[CHOOSE i \in members : \A j \in members : i <= j]
_merge_cluster_signatures(sigs, members) ==
    LET first == CHOOSE i \in members : \A j \in members : i <= j
    IN  [sigs[first] EXCEPT !.frequency = Cardinality(members)]

\* The grouping and merging of cluster_error_signatures: clusters in the order
\* their first signature appears; a cluster of several signatures is merged, a
\* cluster of one is passed on as it is.
MergedSignatures(sigs, labels) ==
    LET firsts == {i \in DOMAIN sigs :
                      \A j \in 1..(i - 1) : ClusterKey(labels, j) # ClusterKey(labels, i)}
        rank(i) == Cardinality({j \in firsts : j <= i})
        firstAt(k) == CHOOSE i \in firsts : rank(i) = k
        members(i) == {j \in DOMAIN sigs : ClusterKey(labels, j) = ClusterKey(labels, i)}
    IN  [k \in 1..Cardinality(firsts) |->
            IF Cardinality(members(firstAt(k))) > 1
            THEN _merge_cluster_signatures(sigs, members(firstAt(k)))
            ELSE sigs[firstAt(k)]]

\* cluster_error_signatures: the input itself without signatures or without
\* an embedding model, and when the clustering raises; else the merged list.
cluster_error_signatures(sigs, mode, labels) ==
    IF sigs = <<>> \/ mode = "no_model" THEN sigs
    ELSE IF mode = "failed" THEN sigs
    ELSE MergedSignatures(sigs, labels)

ClInit ==
    /\ clInput \in ExtractedSignatures
    /\ clMode \in {"labels", "failed", "no_model"}
    /\ clLabels \in [DOMAIN clInput -> -1..MaxLabel]
    /\ clMode # "labels" => \A i \in DOMAIN clLabels : clLabels[i] = -1
    /\ clOutput = <<>>
    /\ clPc = "call"
    /\ BusIdle /\ SemIdle /\ DetIdle /\ TmpIdle /\ DdIdle /\ CycIdle /\ IngIdle
    /\ SgIdle /\ SynIdle /\ DlIdle /\ PmIdle /\ HarIdle /\ McIdle
    /\ TpIdle

ClCluster ==
    /\ clPc = "call"
    /\ clOutput' = cluster_error_signatures(clInput, clMode, clLabels)
    /\ clPc' = "done"
    /\ UNCHANGED <<clInput, clMode, clLabels>>

ClNext ==
    ClCluster /\ UNCHANGED <<busVars, semVars, detVars, tmpVars, ddVars, cycVars,
                             ingVars, sgVars, synVars, dlVars, pmVars, harVars, mcVars, tpVars>>

ClusterSpec == ClInit /\ [][ClNext]_vars

RECURSIVE SumFrequency(_)
SumFrequency(sigs) ==
    IF sigs = <<>> THEN 0 ELSE Head(sigs).frequency + SumFrequency(Tail(sigs))

\* C23: the clustered output has at most as many signatures as the input and
\* its frequencies add up to the number of input signatures.
C23_FrequencySum ==
    clPc = "done" =>
        /\ Len(clOutput) <= Len(clInput)
        /\ SumFrequency(clOutput) = Len(clInput)

\* Two signatures in one cluster and a noise point: two output signatures.
C23_Witness ==
    /\ clPc = "done"
    /\ clMode = "labels"
    /\ Len(clInput) = 3
    /\ Len(clOutput) = 2
    /\ \E k \in DOMAIN clOutput : clOutput[k].frequency = 2

(***************************************************************************)
(* Concurrent upserts of clustered signatures by several Signal handlers:  *)
(* save_clustered_signatures, one transaction per handler (SigSpec).        *)
(***************************************************************************)
NoWrite == [set |-> FALSE, rows |-> <<>>]

\* What handler h's transaction sees: its own writes over the committed rows.
SgView(h) ==
    [k \in 1..MaxSigs |-> IF sgPend[h][k].set THEN sgPend[h][k].rows ELSE sgTable[k]]

\* Another open transaction has written the row of this hash: the statement
\* waits for it (unique index on signature_hash).
SgLocked(h, k) ==
    \E g \in 1..MaxDeliveries : g # h /\ sgPc[g] = "saving" /\ sgPend[g][k].set

SgInit ==
    /\ sgTable = [k \in 1..MaxSigs |-> <<>>]
    /\ sgPend = [h \in 1..MaxDeliveries |-> [k \in 1..MaxSigs |-> NoWrite]]
    /\ sgCount = [h \in 1..MaxDeliveries |-> 0]
    /\ sgPc = [h \in 1..MaxDeliveries |-> "saving"]
    /\ sgLast = [conflict |-> FALSE, incoming |-> 0, added |-> 0]
    /\ BusIdle /\ SemIdle /\ DetIdle /\ TmpIdle /\ DdIdle /\ CycIdle /\ IngIdle
    /\ ClIdle /\ SynIdle /\ DlIdle /\ PmIdle /\ HarIdle /\ McIdle
    /\ TpIdle

\* One pass of the for loop of save_clustered_signatures: the upsert of one
\* clustered signature inside the handler's transaction.
SgUpsert(h, sig) ==
    /\ sgPc[h] = "saving"
    /\ sgCount[h] < MaxSigs
    /\ ~SgLocked(h, sig.hash)
    /\ LET old == SgView(h)[sig.hash]
           new == UpsertSignature(SgView(h), sig)[sig.hash]
       IN  /\ sgPend' = [sgPend EXCEPT ![h][sig.hash] = [set |-> TRUE, rows |-> new]]
           /\ sgLast' = IF old # <<>>
                        THEN [conflict |-> TRUE, incoming |-> sig.frequency,
                              added |-> new[1] - old[1]]
                        ELSE sgLast
    /\ sgCount' = [sgCount EXCEPT ![h] = @ + 1]
    /\ UNCHANGED <<sgTable, sgPc>>

\* conn.commit()
SgCommit(h) ==
    /\ sgPc[h] = "saving"
    /\ sgCount[h] >= 1
    /\ sgTable' = SgView(h)
    /\ sgPend' = [sgPend EXCEPT ![h] = [k \in 1..MaxSigs |-> NoWrite]]
    /\ sgPc' = [sgPc EXCEPT ![h] = "committed"]
    /\ UNCHANGED <<sgCount, sgLast>>

\* A statement raises (or the transaction is chosen as a deadlock victim): the
\* exception is logged and nothing of the transaction is committed.
SgAbort(h) ==
    /\ sgPc[h] = "saving"
    /\ sgPend' = [sgPend EXCEPT ![h] = [k \in 1..MaxSigs |-> NoWrite]]
    /\ sgPc' = [sgPc EXCEPT ![h] = "aborted"]
    /\ UNCHANGED <<sgTable, sgCount, sgLast>>

SgNext ==
    \E h \in 1..MaxDeliveries :
        \/ \E sig \in [hash : 1..MaxSigs, frequency : {1, MaxFreq}] :
             SgUpsert(h, sig)
                 /\ UNCHANGED <<busVars, semVars, detVars, tmpVars, ddVars, cycVars,
                                ingVars, clVars, synVars, dlVars, pmVars, harVars, mcVars, tpVars>>
        \/ SgCommit(h) /\ UNCHANGED <<busVars, semVars, detVars, tmpVars, ddVars,
                                      cycVars, ingVars, clVars, synVars, dlVars, pmVars, harVars, mcVars, tpVars>>
        \/ SgAbort(h) /\ UNCHANGED <<busVars, semVars, detVars, tmpVars, ddVars,
                                     cycVars, ingVars, clVars, synVars, dlVars, pmVars, harVars, mcVars, tpVars>>

SigSpec == SgInit /\ [][SgNext]_vars

\* C21: an upsert that meets an existing row of the same signature_hash leaves
\* the old frequency plus the incoming signature's frequency.
C21_FrequencyAddsIncoming ==
    sgLast.conflict => sgLast.added = sgLast.incoming

\* C22: each signature_hash has at most one row in error_signatures and every
\* row has frequency >= 1, also in what an open transaction has written.
C22_UniqueHashPositiveFrequency ==
    /\ \A k \in DOMAIN sgTable :
          /\ Len(sgTable[k]) <= 1
          /\ \A j \in DOMAIN sgTable[k] : sgTable[k][j] >= 1
    /\ \A h \in DOMAIN sgPend : \A k \in DOMAIN sgPend[h] :
          /\ Len(sgPend[h][k].rows) <= 1
          /\ \A j \in DOMAIN sgPend[h][k].rows : sgPend[h][k].rows[j] >= 1

\* Two handlers upserted the same hash in overlapping transactions and both
\* committed: one row, counted more than once.
C22_Witness ==
    /\ sgPc[1] = "committed"
    /\ sgPc[2] = "committed"
    /\ sgCount[1] = MaxSigs
    /\ sgCount[2] = MaxSigs
    /\ \E k \in DOMAIN sgTable : Len(sgTable[k]) = 1 /\ sgTable[k][1] >= 3

(***************************************************************************)
(* Synth handlers on one report: process_synthesis_request and             *)
(* save_generated_test, then Validate on the repros they wrote (SynSpec).   *)
(***************************************************************************)
\* The keys of the interactions dict of parse_har_for_interactions, in the
\* order the dict literal lists them.
InteractionKinds ==
    <<"navigation", "form_submissions", "clicks", "inputs", "api_calls", "page_loads">>

\* len(interactions[kind]): nothing is ever appended to clicks and inputs.
InteractionCount(har, kind) ==
    IF kind \in {"clicks", "inputs"} THEN 0 ELSE har[kind]

\* The kinds of the steps in the order of
\* for step_type, steps in interactions.items(): for step in steps
RECURSIVE KindsFrom(_, _)
KindsFrom(har, k) ==
    IF k > Len(InteractionKinds) THEN <<>>
    ELSE [i \in 1..InteractionCount(har, InteractionKinds[k]) |-> InteractionKinds[k]]
             \o KindsFrom(har, k + 1)

\* The rows of the INSERT INTO steps loop: step_order starts at 0 and is
\* incremented after every insert.
StepRows_FromOne(repro_id, har) ==
    LET kinds == KindsFrom(har, 1)
    IN  [k \in DOMAIN kinds |-> [repro_id |-> repro_id, order_idx |-> k, kind |-> kinds[k]]]
StepRows(repro_id, har) ==
    LET kinds == KindsFrom(har, 1)
    IN  [k \in DOMAIN kinds |->
            [repro_id |-> repro_id, order_idx |-> k - 1, kind |-> kinds[k]]]

\* test_package: the files save_generated_test uploads
PackageFiles == {"test.spec.ts", "fixtures.json", "docker-compose.yml", "README.md"}

\* file_key = f"tests/generated/{report_id}/{filename}"
SynthKey(report_id, filename) == [dir |-> report_id, file |-> filename]

\* _prepare_test_environment: f"tests/generated/{repro_id}/<file>"
ValidateFiles == {"test.spec.ts", "fixtures.json", "docker-compose.yml"}
ValidateKey(repro_id, filename) == [dir |-> repro_id, file |-> filename]

\* The status save_generated_test inserts the repro with.
SynthStatus == "completed"

SynInit ==
    /\ synReport \in 1..MaxReportId
    /\ synHar \in [navigation : 0..MaxPerKind, form_submissions : 0..MaxPerKind,
                   api_calls : 0..MaxPerKind, page_loads : 0..MaxPerKind]
    /\ synAcked = FALSE
    /\ synPc = [h \in 1..MaxDeliveries |-> "idle"]
    /\ repros = <<>>
    /\ stepsTable = <<>>
    /\ objectKeys = {}
    /\ fetched = <<>>
    /\ BusIdle /\ SemIdle /\ DetIdle /\ TmpIdle /\ DdIdle /\ CycIdle /\ IngIdle
    /\ ClIdle /\ SgIdle /\ DlIdle /\ PmIdle /\ HarIdle /\ McIdle
    /\ TpIdle

\* The bus hands report.synth to a handler: the first time, or again while no
\* ack has reached it.
SynDeliver(h) ==
    /\ synPc[h] = "idle"
    /\ \A g \in 1..(h - 1) : synPc[g] # "idle"
    /\ ~synAcked
    /\ synPc' = [synPc EXCEPT ![h] = "received"]
    /\ UNCHANGED <<synReport, synHar, synAcked, repros, stepsTable, objectKeys, fetched>>

\* generate_test_scenario: the scenario, or {'error': ...} and the request
\* returns without saving.
SynGenerate(h) ==
    /\ synPc[h] = "received"
    /\ \E ok \in BOOLEAN :
         synPc' = [synPc EXCEPT ![h] = IF ok THEN "generated" ELSE "processed"]
    /\ UNCHANGED <<synReport, synHar, synAcked, repros, stepsTable, objectKeys, fetched>>

\* save_generated_test: the uploads, then INSERT INTO repros ... RETURNING id,
\* the INSERTs of the steps and the commit; an exception is re-raised and
\* logged by process_synthesis_request.
SynSave(h) ==
    /\ synPc[h] = "generated"
    /\ \E o \in {"committed", "upload_failed", "db_failed"} :
         /\ objectKeys' = IF o = "upload_failed" THEN objectKeys
                          ELSE objectKeys \union
                                 {SynthKey(synReport, f) : f \in PackageFiles}
         /\ IF o = "committed"
            THEN LET repro_id == Len(repros) + 1
                 IN  /\ repros' = Append(repros,
                                     [id |-> repro_id, report_id |-> synReport,
                                      status |-> SynthStatus])
                     /\ stepsTable' = stepsTable \o StepRows(repro_id, synHar)
            ELSE UNCHANGED <<repros, stepsTable>>
    /\ synPc' = [synPc EXCEPT ![h] = "processed"]
    /\ UNCHANGED <<synReport, synHar, synAcked, fetched>>

\* message_handler: await msg.ack() after process_synthesis_request returned.
SynAck(h) ==
    /\ synPc[h] = "processed"
    /\ synPc' = [synPc EXCEPT ![h] = "done"]
    /\ synAcked' = TRUE
    /\ UNCHANGED <<synReport, synHar, repros, stepsTable, objectKeys, fetched>>

\* Validate on repro r: _prepare_test_environment fetches the artifacts under
\* the repro's id; _save_validation_results sets status = 'validated'.
SynValidate(r) ==
    /\ r \in DOMAIN repros
    /\ r \notin DOMAIN fetched
    /\ fetched' = fetched @@
           (r :> {f \in ValidateFiles : ValidateKey(repros[r].id, f) \in objectKeys})
    /\ \E saved \in BOOLEAN :
         repros' = IF saved THEN [repros EXCEPT ![r].status = "validated"] ELSE repros
    /\ UNCHANGED <<synReport, synHar, synAcked, synPc, stepsTable, objectKeys>>

SynNext ==
    \E h \in 1..MaxDeliveries :
        \/ SynDeliver(h) /\ UNCHANGED <<busVars, semVars, detVars, tmpVars, ddVars,
                                        cycVars, ingVars, clVars, sgVars, dlVars, pmVars, harVars, mcVars, tpVars>>
        \/ SynGenerate(h) /\ UNCHANGED <<busVars, semVars, detVars, tmpVars, ddVars,
                                         cycVars, ingVars, clVars, sgVars, dlVars, pmVars, harVars, mcVars, tpVars>>
        \/ SynSave(h) /\ UNCHANGED <<busVars, semVars, detVars, tmpVars, ddVars,
                                     cycVars, ingVars, clVars, sgVars, dlVars, pmVars, harVars, mcVars, tpVars>>
        \/ SynAck(h) /\ UNCHANGED <<busVars, semVars, detVars, tmpVars, ddVars,
                                    cycVars, ingVars, clVars, sgVars, dlVars, pmVars, harVars, mcVars, tpVars>>
        \/ SynValidate(h) /\ UNCHANGED <<busVars, semVars, detVars, tmpVars, ddVars,
                                         cycVars, ingVars, clVars, sgVars, dlVars, pmVars, harVars, mcVars, tpVars>>

SynSpec == SynInit /\ [][SynNext]_vars

\* The rows of the steps table that belong to a repro.
StepsOf(repro_id) == {k \in DOMAIN stepsTable : stepsTable[k].repro_id = repro_id}

\* C24: the order_idx values of the n steps of a repro are exactly 0..n-1,
\* without gaps or duplicates.
C24_DenseOrderIdx ==
    \A r \in DOMAIN repros :
        LET rows == StepsOf(repros[r].id)
        IN  /\ {stepsTable[k].order_idx : k \in rows} = 0..(Cardinality(rows) - 1)
            /\ \A k1, k2 \in rows :
                  stepsTable[k1].order_idx = stepsTable[k2].order_idx => k1 = k2

\* Two repros were written, each with steps of several kinds.
C24_Witness ==
    /\ Len(repros) = 2
    /\ \A r \in DOMAIN repros : Cardinality(StepsOf(repros[r].id)) >= 3

\* navigation before forms before API verifications
KindRank(kind) ==
    CASE kind = "navigation" -> 1
      [] kind = "form_submissions" -> 2
      [] kind = "api_calls" -> 3
      [] OTHER -> 0

\* C25: among the steps of a repro every navigation step comes before every
\* form step and every form step before every API verification step, and no
\* step of another kind is persisted.
C25_KindOrder ==
    \A k1, k2 \in DOMAIN stepsTable :
        /\ KindRank(stepsTable[k1].kind) # 0
        /\ (/\ stepsTable[k1].repro_id = stepsTable[k2].repro_id
            /\ KindRank(stepsTable[k1].kind) < KindRank(stepsTable[k2].kind))
               => stepsTable[k1].order_idx < stepsTable[k2].order_idx

\* C26: however often report.synth is delivered for the report, the repros
\* table never holds more than its one Repro row.
C26_OneReproPerReport ==
    Cardinality({r \in DOMAIN repros : repros[r].report_id = synReport}) <= 1

\* C27: the status of every Repro row is created, validated or exported.
C27_ReproStatus ==
    \A r \in DOMAIN repros : repros[r].status \in {"created", "validated", "exported"}

\* C28: Validate finds test.spec.ts, fixtures.json and docker-compose.yml of
\* every repro Synth wrote.
C28_ArtifactsFound ==
    \A r \in DOMAIN fetched : fetched[r] = ValidateFiles

(***************************************************************************)
(* download_file under @retry(stop=stop_after_attempt(3), ...) in the       *)
(* Ingest and Validate workers (DlSpec).                                    *)
(***************************************************************************)
DlWorkers == {"ingest", "validate"}

\* What the object store does at each attempt the call could make.
S3Behaviours == [1..stop_after_attempt -> BOOLEAN]

\* The body of download_file at attempt k: the path of the temp file, or, the
\* client's exception being caught by `except Exception`, None. It is the same
\* in both workers up to the name of the temp file.
download_file(w, s3, k) ==
    IF s3[k] THEN "path" ELSE "None"

\* The retry decorator around the body: it calls the body again only when the
\* body raised, and at most stop_after_attempt times in all; a value the body
\* returns is handed to the caller as it is.
RECURSIVE retry(_, _, _)
retry(w, s3, k) ==
    LET r == download_file(w, s3, k)
    IN  IF r = "raise" /\ k < stop_after_attempt
        THEN retry(w, s3, k + 1)
        ELSE [result |-> r, attempts |-> k]

DlInit ==
    /\ dlWorker \in DlWorkers
    /\ dlS3 = [k \in 1..stop_after_attempt |-> TRUE]
    /\ dlAttempts = 0
    /\ dlResult = "none"
    /\ dlPc = "idle"
    /\ dlLog = <<>>
    /\ BusIdle /\ SemIdle /\ DetIdle /\ TmpIdle /\ DdIdle /\ CycIdle /\ IngIdle
    /\ ClIdle /\ SgIdle /\ SynIdle /\ PmIdle /\ HarIdle /\ McIdle
    /\ TpIdle

\* The worker calls self.download_file(s3_key).
DlCall(s3) ==
    /\ dlPc = "idle"
    /\ Len(dlLog) < MaxDownloads
    /\ dlS3' = s3
    /\ dlAttempts' = 0
    /\ dlResult' = "none"
    /\ dlPc' = "called"
    /\ UNCHANGED <<dlWorker, dlLog>>

\* The decorated call runs to its end.
DlRun ==
    /\ dlPc = "called"
    /\ LET r == retry(dlWorker, dlS3, 1)
       IN  /\ dlResult' = r.result
           /\ dlAttempts' = r.attempts
    /\ dlPc' = "returned"
    /\ UNCHANGED <<dlWorker, dlS3, dlLog>>

\* The caller takes the result and goes on.
DlReturn ==
    /\ dlPc = "returned"
    /\ dlLog' = Append(dlLog, dlResult)
    /\ dlPc' = "idle"
    /\ UNCHANGED <<dlWorker, dlS3, dlAttempts, dlResult>>

DlNext ==
    \/ \E s3 \in S3Behaviours :
         DlCall(s3) /\ UNCHANGED <<busVars, semVars, detVars, tmpVars, ddVars,
                                   cycVars, ingVars, clVars, sgVars, synVars, pmVars, harVars, mcVars, tpVars>>
    \/ DlRun /\ UNCHANGED <<busVars, semVars, detVars, tmpVars, ddVars, cycVars,
                            ingVars, clVars, sgVars, synVars, pmVars, harVars, mcVars, tpVars>>
    \/ DlReturn /\ UNCHANGED <<busVars, semVars, detVars, tmpVars, ddVars, cycVars,
                               ingVars, clVars, sgVars, synVars, pmVars, harVars, mcVars, tpVars>>

DlSpec == DlInit /\ [][DlNext]_vars

\* C29: when a download fails it is attempted up to three times before the
\* failure is reported: a call reports a failure only after three attempts, and
\* a call whose first attempt fails and whose second or third attempt would
\* succeed gives the file.
C29_RetriesUpToThree ==
    dlPc = "returned" =>
        /\ dlResult # "path" => dlAttempts = stop_after_attempt
        /\ (~dlS3[1] /\ (dlS3[2] \/ dlS3[3])) => dlResult = "path"

\* C30: a delivery whose payload is malformed (undecodable JSON, or its
\* required field missing) is acknowledged once the handler is done with it.
C30_MalformedAcked ==
    \A h \in 1..MaxDeliveries :
        (hs[h].pc = "done" /\ msg.payload # "valid") => hs[h].ack = "ack"

(***************************************************************************)
(* A message on mapping.request or export.request whose handler fails:      *)
(* handle_mapping_request, handle_export_request (PoisonSpec).              *)
(***************************************************************************)
PmWorkers == {"map", "export"}

\* Why the try block of the handler raises on the message: the body is not
\* JSON, a required key is missing, the export type is not supported (Export),
\* or the processing itself (store, publish) fails.
PmCauses(w) ==
    {"bad_json", "missing_field", "processing"}
        \union (IF w = "export" THEN {"unsupported_type"} ELSE {})

\* What one run of the try block can come to on such a message: the first
\* three causes are in the message and raise on every delivery; a processing
\* failure can also go away.
PmOutcomes(cause) ==
    IF cause = "processing" THEN {"raised", "ok"} ELSE {"raised"}

\* `await msg.ack()` at the end of the try block, `await msg.nak()` in the
\* except block.
HandlerResponse(o) == IF o = "ok" THEN "ack" ELSE "nak"

PmInit ==
    /\ pmWorker \in PmWorkers
    /\ pmCause \in PmCauses(pmWorker)
    /\ pmDeliveries = 0
    /\ pmNaks = 0
    /\ pmPc = "queued"
    /\ BusIdle /\ SemIdle /\ DetIdle /\ TmpIdle /\ DdIdle /\ CycIdle /\ IngIdle
    /\ ClIdle /\ SgIdle /\ SynIdle /\ DlIdle /\ HarIdle /\ McIdle
    /\ TpIdle

\* The bus hands the message to the handler: the first time, and again after
\* every negative acknowledgement. The subscription sets no delivery limit.
PmDeliver ==
    /\ pmPc = "queued"
    /\ pmDeliveries < MaxPoisonDeliveries
    /\ pmDeliveries' = pmDeliveries + 1
    /\ pmPc' = "handling"
    /\ UNCHANGED <<pmWorker, pmCause, pmNaks>>

\* The handler runs: ack at the end of the try block, nak from the except
\* block; no count of deliveries is read or kept.
PmHandle(o) ==
    /\ pmPc = "handling"
    /\ o \in PmOutcomes(pmCause)
    /\ IF HandlerResponse(o) = "ack"
       THEN pmPc' = "acked" /\ UNCHANGED pmNaks
       ELSE pmPc' = "queued" /\ pmNaks' = pmNaks + 1
    /\ UNCHANGED <<pmWorker, pmCause, pmDeliveries>>

PmNext ==
    \/ PmDeliver /\ UNCHANGED <<busVars, semVars, detVars, tmpVars, ddVars, cycVars,
                                ingVars, clVars, sgVars, synVars, dlVars, harVars, mcVars, tpVars>>
    \/ \E o \in {"raised", "ok"} :
         PmHandle(o) /\ UNCHANGED <<busVars, semVars, detVars, tmpVars, ddVars,
                                    cycVars, ingVars, clVars, sgVars, synVars,
                                    dlVars, harVars, mcVars, tpVars>>

PoisonSpec == PmInit /\ [][PmNext]_vars

\* C31: a message whose handler fails on every delivery is quarantined once it
\* has been redelivered 5 times: after the first delivery and 5 redeliveries it
\* is neither handed to a handler nor negatively acknowledged again.
C31_QuarantinedAfterFive ==
    /\ pmDeliveries <= 1 + 5
    /\ pmNaks <= 1 + 5

(***************************************************************************)
(* parse_har_for_interactions on the entries of a HAR, and the steps        *)
(* save_generated_test makes of them (HarSpec).                             *)
(***************************************************************************)
\* What the classification reads of an entry: the request method, the MIME
\* type of the response content, whether the request has postData with text or
\* params, whether a request header (content-type, accept) names json, and
\* whether the URL has an API-like pattern. The response status is stored with
\* the interaction and not read here.
HarEntries ==
    [method : {"GET", "POST"}, mime : {"text/html", "application/json", ""},
     postData : BOOLEAN, json : BOOLEAN, apiUrl : BOOLEAN]

\* 'text/html' in mime_type or mime_type == ''
_is_html_request(e) == e.mime \in {"text/html", ""}

\* 'text' in post_data or 'params' in post_data
_has_form_data(e) == e.postData

\* is_json or is_api_url, both read from the request
_is_api_call(e) == e.json \/ e.apiUrl

\* The if / elif / elif of the loop over the entries.
ClassifyEntry(e) ==
    IF e.method = "GET" /\ _is_html_request(e) THEN "navigation"
    ELSE IF e.method = "POST" /\ _has_form_data(e) THEN "form_submissions"
    ELSE IF _is_api_call(e) THEN "api_calls"
    ELSE "none"

\* parse_har_for_interactions: the lengths of the lists of the dict.
parse_har_for_interactions(entries, pages) ==
    [navigation       |-> Cardinality({i \in DOMAIN entries :
                                         ClassifyEntry(entries[i]) = "navigation"}),
     form_submissions |-> Cardinality({i \in DOMAIN entries :
                                         ClassifyEntry(entries[i]) = "form_submissions"}),
     api_calls        |-> Cardinality({i \in DOMAIN entries :
                                         ClassifyEntry(entries[i]) = "api_calls"}),
     page_loads       |-> pages]

HarInit ==
    /\ harEntries \in UNION {[1..len -> HarEntries] : len \in 0..MaxEntries}
    /\ harPages \in 0..MaxPerKind
    /\ harInteractions = [navigation |-> 0, form_submissions |-> 0, api_calls |-> 0,
                          page_loads |-> 0]
    /\ harSteps = <<>>
    /\ harPc = "har"
    /\ BusIdle /\ SemIdle /\ DetIdle /\ TmpIdle /\ DdIdle /\ CycIdle /\ IngIdle
    /\ ClIdle /\ SgIdle /\ SynIdle /\ DlIdle /\ PmIdle /\ McIdle
    /\ TpIdle

HarParse ==
    /\ harPc = "har"
    /\ harInteractions' = parse_har_for_interactions(harEntries, harPages)
    /\ harPc' = "parsed"
    /\ UNCHANGED <<harEntries, harPages, harSteps>>

\* save_generated_test: the INSERT INTO steps loop over the interactions.
HarSave ==
    /\ harPc = "parsed"
    /\ harSteps' = StepRows(1, harInteractions)
    /\ harPc' = "saved"
    /\ UNCHANGED <<harEntries, harPages, harInteractions>>

HarNext ==
    \/ HarParse /\ UNCHANGED <<busVars, semVars, detVars, tmpVars, ddVars, cycVars,
                               ingVars, clVars, sgVars, synVars, dlVars, pmVars, mcVars, tpVars>>
    \/ HarSave /\ UNCHANGED <<busVars, semVars, detVars, tmpVars, ddVars, cycVars,
                              ingVars, clVars, sgVars, synVars, dlVars, pmVars, mcVars, tpVars>>

HarSpec == HarInit /\ [][HarNext]_vars

\* The persisted steps of one kind.
StepsOfKind(kind) == Cardinality({k \in DOMAIN harSteps : harSteps[k].kind = kind})

\* C34: for a HAR of two entries, a GET answered with text/html and a POST
\* answered with application/json, exactly one navigation step and one API
\* step and no form step are persisted; and every entry gives at most one step
\* of the kinds navigation, form_submissions, api_calls.
C34_GetHtmlPostJson ==
    harPc = "saved" =>
        /\ (/\ Len(harEntries) = 2
            /\ harEntries[1].method = "GET" /\ harEntries[1].mime = "text/html"
            /\ harEntries[2].method = "POST"
            /\ harEntries[2].mime = "application/json") =>
               /\ StepsOfKind("navigation") = 1
               /\ StepsOfKind("api_calls") = 1
               /\ StepsOfKind("form_submissions") = 0
        /\ StepsOfKind("navigation") + StepsOfKind("form_submissions")
              + StepsOfKind("api_calls") <= Len(harEntries)

(***************************************************************************)
(* MapWorker._split_content (ChunkSpec).                                    *)
(***************************************************************************)
\* The characters of a content string: a letter, a period, a newline.
Chars == {"a", ".", "\n"}
Contents == UNION {[1..len -> Chars] : len \in 0..MaxContent}

\* content[a:b] for 0 <= a
Slice(s, a, b) == SubSeq(s, a + 1, Min(b, Len(s)))

\* chunk.rfind(ch): the last 0-based index of ch, -1 without one.
rfind(chunk, ch) ==
    LET at == {i \in DOMAIN chunk : chunk[i] = ch}
    IN  IF at = {} THEN -1 ELSE (CHOOSE i \in at : \A j \in at : j <= i) - 1

\* chunk.strip(): without its leading and trailing whitespace.
strip(chunk) ==
    LET ink == {i \in DOMAIN chunk : chunk[i] # "\n"}
    IN  IF ink = {} THEN <<>>
        ELSE SubSeq(chunk, CHOOSE i \in ink : \A j \in ink : i <= j,
                           CHOOSE i \in ink : \A j \in ink : j <= i)

\* if break_point > start + settings.CHUNK_SIZE * 0.7
BreaksAt(break_point, start, size) == 10 * break_point > 10 * start + 7 * size

\* One pass of the while loop from start: the chunk it appends and the end it
\* computes.
ChunkPass(content, size, start) ==
    LET end0 == start + size
        chunk0 == Slice(content, start, end0)
        break_point == Max(rfind(chunk0, "."), rfind(chunk0, "\n"))
    IN  IF end0 < Len(content) /\ BreaksAt(break_point, start, size)
        THEN [chunk |-> Slice(content, start, start + break_point + 1),
              end |-> start + break_point + 1]
        ELSE [chunk |-> chunk0, end |-> end0]

McInit ==
    /\ mcContent \in Contents
    /\ mcSize \in 1..MaxChunkSize
    /\ mcOverlap \in 0..(mcSize - 1)
    /\ mcStart = 0
    /\ mcChunks = <<>>
    /\ mcPc = "loop"
    /\ BusIdle /\ SemIdle /\ DetIdle /\ TmpIdle /\ DdIdle /\ CycIdle /\ IngIdle
    /\ ClIdle /\ SgIdle /\ SynIdle /\ DlIdle /\ PmIdle /\ HarIdle
    /\ TpIdle

\* One pass of `while start < len(content)`.
McPass ==
    /\ mcPc = "loop"
    /\ mcStart < Len(mcContent)
    /\ Len(mcChunks) < MaxChunks
    /\ LET r == ChunkPass(mcContent, mcSize, mcStart)
       IN  /\ mcChunks' = Append(mcChunks, strip(r.chunk))
           /\ mcStart' = r.end - mcOverlap
    /\ UNCHANGED <<mcContent, mcSize, mcOverlap, mcPc>>

\* The loop is left (its condition, or the break at its end): return chunks.
McReturn ==
    /\ mcPc = "loop"
    /\ mcStart >= Len(mcContent)
    /\ mcPc' = "done"
    /\ UNCHANGED <<mcContent, mcSize, mcOverlap, mcStart, mcChunks>>

McNext ==
    \/ McPass /\ UNCHANGED <<busVars, semVars, detVars, tmpVars, ddVars, cycVars,
                             ingVars, clVars, sgVars, synVars, dlVars, pmVars,
                             harVars, tpVars>>
    \/ McReturn /\ UNCHANGED <<busVars, semVars, detVars, tmpVars, ddVars, cycVars,
                               ingVars, clVars, sgVars, synVars, dlVars, pmVars,
                               harVars, tpVars>>

ChunkSpec == McInit /\ [][McNext]_vars

\* s is a substring of c.
Contains(c, s) ==
    \E q \in 0..(Len(c) - Len(s)) : SubSeq(c, q + 1, q + Len(s)) = s

\* C35: for every content and every configuration with 0 <= overlap <
\* chunk_size, each substring of the content of length at most chunk_size -
\* overlap lies wholly inside at least one chunk of the split.
C35_SubstringInChunk ==
    mcPc = "done" =>
        \A p \in 1..Len(mcContent), len \in 1..(mcSize - mcOverlap) :
            p + len - 1 <= Len(mcContent) =>
                \E k \in DOMAIN mcChunks :
                    Contains(mcChunks[k], SubSeq(mcContent, p, p + len - 1))

(***************************************************************************)
(* SignalWorker.download_file and process_signal on the signals of one      *)
(* report (PathSpec).                                                       *)
(***************************************************************************)
\* The object keys: a prefix and a file name.
ObjectKeys == [dir : 1..MaxDirs, name : {"trace.har", "app.log"}]
SignalKinds == {"har", "log", "video"}

\* Lists of signals with pairwise distinct object keys.
SignalLists ==
    {s \in UNION {[1..len -> [key : ObjectKeys, kind : SignalKinds]] :
                     len \in 1..MaxSignals} :
        \A i, j \in DOMAIN s : i # j => s[i].key # s[j].key}

\* temp_path = os.path.join(self.temp_dir,
\*                 f"signal_{hash(s3_key) % 1000}_{Path(s3_key).name}")
temp_path(hash, key) == [bucket |-> hash[key], name |-> key.name]

\* local_path of a task that has not downloaded, or whose download failed.
NoPath == [bucket |-> -1, name |-> ""]

TpInit ==
    /\ tpSignals \in SignalLists
    /\ tpHash \in [ObjectKeys -> 0..MaxHash]
    /\ tpPaths = [i \in DOMAIN tpSignals |-> NoPath]
    /\ tpFiles = {}
    /\ tpDone = {}
    /\ BusIdle /\ SemIdle /\ DetIdle /\ TmpIdle /\ DdIdle /\ CycIdle /\ IngIdle
    /\ ClIdle /\ SgIdle /\ SynIdle /\ DlIdle /\ PmIdle /\ HarIdle /\ McIdle

\* process_signal of task i, from its start to its return: no step of it
\* waits (the download and the parsing are blocking calls), so the event loop
\* runs it in one piece. The file is removed after a har or log signal was
\* parsed; a signal of another kind returns 'skipped' and leaves its file, and
\* so does a parse that raises.
process_signal(i, o) ==
    /\ i \in DOMAIN tpSignals
    /\ i \notin tpDone
    /\ \A j \in 1..(i - 1) : j \in tpDone
    /\ LET path == temp_path(tpHash, tpSignals[i].key)
       IN  CASE o = "download_failed" ->
                  UNCHANGED <<tpPaths, tpFiles>>
             [] o = "parse_failed" ->
                  /\ tpPaths' = [tpPaths EXCEPT ![i] = path]
                  /\ tpFiles' = tpFiles \union {path}
             [] o = "ok" ->
                  /\ tpPaths' = [tpPaths EXCEPT ![i] = path]
                  /\ tpFiles' = IF tpSignals[i].kind \in {"har", "log"}
                                THEN tpFiles \ {path}
                                ELSE tpFiles \union {path}
    /\ tpDone' = tpDone \union {i}
    /\ UNCHANGED <<tpSignals, tpHash>>

TpNext ==
    \E i \in 1..MaxSignals :
        \/ process_signal(i, "ok")
             /\ UNCHANGED <<busVars, semVars, detVars, tmpVars, ddVars, cycVars,
                            ingVars, clVars, sgVars, synVars, dlVars, pmVars,
                            harVars, mcVars>>
        \/ process_signal(i, "download_failed")
             /\ UNCHANGED <<busVars, semVars, detVars, tmpVars, ddVars, cycVars,
                            ingVars, clVars, sgVars, synVars, dlVars, pmVars,
                            harVars, mcVars>>
        \/ process_signal(i, "parse_failed")
             /\ UNCHANGED <<busVars, semVars, detVars, tmpVars, ddVars, cycVars,
                            ingVars, clVars, sgVars, synVars, dlVars, pmVars,
                            harVars, mcVars>>

PathSpec == TpInit /\ [][TpNext]_vars

\* C39: two signals with distinct object keys that one handler processes are
\* always downloaded to distinct temp paths.
C39_DistinctTempPaths ==
    \A i, j \in DOMAIN tpPaths :
        (i # j /\ tpPaths[i] # NoPath /\ tpPaths[j] # NoPath) =>
            tpPaths[i] # tpPaths[j]
====
